---- MODULE Spec2Model ----
(***************************************************************************)
(* Model of hedisam/ethtxparser: the block-ingestion pipeline              *)
(* (eth.Client.Stream -> eth.ReorgFilter -> index.Index), the ring buffer  *)
(* it is built on, and the stores and REST handlers around it.             *)
(***************************************************************************)
EXTENDS Integers, Sequences, FiniteSets, TLC

VARIABLES
    depth,      \* confirmationDepth handed to ReorgFilter
    rb,         \* ReorgFilter's ring buffer: [buf, head, tail, size]
    rpc,        \* ReorgFilter goroutine: "recv" | "send" | "done"
    rblk,       \* block taken from the input channel, not yet pushed
    rfirst,     \* block popped from the front, being sent downstream
    received,   \* history: blocks ReorgFilter took from its input, in order
    emitted,    \* history: blocks ReorgFilter handed downstream, in order
    dropped,    \* history: blocks removed by DropBack, in order
    reorgDroppedBlocks, \* counter ethtxparser_reorg_dropped_blocks_total
    linked,     \* history: every block after the first linked into the window
    cancelled,  \* ctx.Done() is closed
    inClosed,   \* the raw-block channel (Stream's out, ReorgFilter's in) is closed
    outClosed,  \* the confirmed-block channel (ReorgFilter's out) is closed
    spc,        \* Stream goroutine: "tick" | "send" | "done"
    currentBlockNumber, \* Stream's currentBlockNumber (lastKnown)
    sblk,       \* block Stream is sending downstream
    lastRequest,\* height of Stream's latest request (-1 is "latest", -3 none yet)
    responses,  \* history: blocks the provider returned, in order
    srcEmitted, \* history: blocks Stream handed downstream, in order
    failedBlockRetrievals, \* counter ethtxparser_failed_block_retrievals_total
    retrievedBlocks,       \* counter ethtxparser_block_retrievals_total
    polls,      \* environment: number of requests the provider has answered
    chain,      \* environment: the canonical chain, chain[h] the block of height h
    nextId,     \* environment: the next unused block hash
    reorgs,     \* environment: number of reorganizations so far
    restLast,   \* the latest REST request and what the handler did and returned
    ipc,        \* Index.Start: "recv" | "done"
    indexed,    \* history: blocks Index.Start took from its input, in order
    outcomes,   \* history: how index ended for each of them: "ok" | "check" | "insert"
    insertCalls,\* history: the store.Block of every TxStore.InsertBlock call
    checkCalls, \* history: the address of every SubscriptionStore.IsSubscribed call
    blocksFailedProcessing, \* counter ethtxparser_blocks_failed_processing_total
    processedBlocks,        \* counter ethtxparser_blocks_processed_total
    indexedTransactions,    \* counter ethtxparser_indexed_transactions_total
    subscribedAddresses,    \* memdb.SubscriptionStore.subscribedAddresses
    addrToTransactions,     \* memdb.TxStore.addrToTransactions
    currentBlockNum,        \* memdb.TxStore.currentBlockNum
    ring,       \* a RingBuffer exercised directly: [buf, head, tail, size]
    ringCap,    \* the capacity New was called with
    ringSeq,    \* the bounded sequence the ring buffer is compared with
    ringKept,   \* history: items pushed and not removed by DropBack, in order
    ringPopped, \* history: items returned by successful Pops, in order
    ringLast,   \* the latest ring buffer operation and what it returned
    ins,        \* a TxStore.InsertBlock call in progress: [pc, block, pending]
    obs,        \* the latest read of the TxStore by a concurrent caller
    retry,      \* doRequestWithRetry in progress: [pc, attempts, elapsed, interval, last]
    ix          \* Index.index in progress, check by check: [pc, block, k, addrToTxs, seen, log]

rfVars == <<depth, rb, rpc, rblk, rfirst, received, emitted, dropped, reorgDroppedBlocks, linked,
            outClosed>>
srcState == <<spc, currentBlockNumber, sblk, lastRequest, responses, srcEmitted,
              failedBlockRetrievals, retrievedBlocks>>
srcVars == <<srcState, inClosed>>
idxVars == <<ipc, indexed, outcomes, insertCalls, checkCalls, blocksFailedProcessing, processedBlocks,
             indexedTransactions>>
storeVars == <<subscribedAddresses, addrToTransactions, currentBlockNum>>
chainVars == <<chain, nextId, reorgs>>
ringVars == <<ring, ringCap, ringSeq, ringKept, ringPopped, ringLast>>
lockVars == <<ins, obs>>
unitVars == <<ringVars, lockVars, retry, ix>>
vars == <<rfVars, srcVars, idxVars, storeVars, cancelled, polls, chainVars, restLast, unitVars>>

----------------------------------------------------------------------------
(* Bounds *)
MaxDepth == 3
MaxBlocks == 5
MaxAnyBlocks == 4
MaxHash == 2
MaxPolls == 4
MaxHeight == 3
MaxIdxBlocks == 2
MaxTxs == 2
MaxChain == 6
MaxReorgs == 1
MaxRestBlocks == 1
MaxRingCap == 3
MaxRingOps == 6
MaxFlowDepth == 2
MaxFlowChain == 5
MaxStoreBlocks == 2
MaxRetryTicks == 2
MaxAttemptTime == 10

----------------------------------------------------------------------------
(* eth.Block.  id stands for the pointer identity of the *Block.           *)
NilBlock == [id |-> 0, hash |-> 0, number |-> 0, parentHash |-> 0, txs |-> <<>>]

BlockWith(i, h, n, p, t) == [id |-> i, hash |-> h, number |-> n, parentHash |-> p, txs |-> t]

Block(i, h, n, p) == BlockWith(i, h, n, p, <<>>)

Max(a, b) == IF a >= b THEN a ELSE b

IsPrefix(s, t) == Len(s) <= Len(t) /\ \A k \in 1..Len(s) : s[k] = t[k]

----------------------------------------------------------------------------
(* internal/ringbuffer: indices are 0-based as in the source, so slot k of *)
(* the backing array is buf[k + 1].                                        *)
Cap(r) == Len(r.buf)

RBNewUnclamped(capacity) ==
    [buf |-> [k \in 1..capacity |-> NilBlock], head |-> 0, tail |-> 0, size |-> 0]

RBNewLarger(capacity) ==
    [buf |-> [k \in 1..(Max(1, capacity) + 1) |-> NilBlock], head |-> 0, tail |-> 0, size |-> 0]

RBNew(capacity) ==
    [buf |-> [k \in 1..Max(1, capacity) |-> NilBlock], head |-> 0, tail |-> 0, size |-> 0]

RBSize(r) == r.size

RBIsFull(r) == r.size = Cap(r)

RBPushOk(r) == r.size # Cap(r)

RBPushOver(r, item) ==
    [r EXCEPT !.buf[r.tail + 1] = item, !.tail = (r.tail + 1) % Cap(r), !.size = r.size + 1]

RBPush(r, item) ==
    IF r.size = Cap(r) THEN r
    ELSE [r EXCEPT !.buf[r.tail + 1] = item,
                   !.tail = (r.tail + 1) % Cap(r),
                   !.size = r.size + 1]

RBPopKeep(r) == r

RBPopBack(r) ==
    IF r.size = 0 THEN r
    ELSE LET t == (r.tail - 1 + Cap(r)) % Cap(r)
         IN [r EXCEPT !.tail = t, !.buf[t + 1] = NilBlock, !.size = r.size - 1]

RBPopItem(r) == IF r.size = 0 THEN NilBlock ELSE r.buf[r.head + 1]

RBPop(r) ==
    IF r.size = 0 THEN r
    ELSE [r EXCEPT !.buf[r.head + 1] = NilBlock,
                   !.head = (r.head + 1) % Cap(r),
                   !.size = r.size - 1]

RBBackOk(r) == r.size # 0

RBBack(r) ==
    IF r.size = 0 THEN NilBlock
    ELSE r.buf[((r.tail - 1 + Cap(r)) % Cap(r)) + 1]

RBDropFront(r) == RBPop(r)

RBDropBack(r) ==
    IF r.size = 0 THEN r
    ELSE LET t == (r.tail - 1 + Cap(r)) % Cap(r)
         IN [r EXCEPT !.tail = t, !.buf[t + 1] = NilBlock, !.size = r.size - 1]

(* The window's content, oldest first. *)
Window(r) == [k \in 1..r.size |-> r.buf[((r.head + k - 1) % Cap(r)) + 1]]

(* A RingBuffer as New leaves it, with nothing done on it yet. *)
RingInit(capacity) ==
    /\ ringCap = capacity
    /\ ring = RBNew(capacity)
    /\ ringSeq = <<>>
    /\ ringKept = <<>>
    /\ ringPopped = <<>>
    /\ ringLast = [op |-> "new", n |-> 0, ok |-> TRUE, ret |-> NilBlock, prev |-> RBNew(capacity),
                   wantOk |-> TRUE, wantRet |-> NilBlock]

----------------------------------------------------------------------------
(* eth.ReorgFilter *)

ReconcileNoDrop(r, b) == r

RECURSIVE ReconcileKeepFront(_, _)
ReconcileKeepFront(r, b) ==
    IF RBSize(r) > 1 /\ b.parentHash # RBBack(r).hash
    THEN ReconcileKeepFront(RBDropBack(r), b)
    ELSE r

ReconcileOnce(r, b) ==
    IF RBSize(r) > 0 /\ b.parentHash # RBBack(r).hash THEN RBDropBack(r) ELSE r

(* The reconciliation loop: drop the back while it does not link to b. *)
RECURSIVE Reconcile(_, _)
Reconcile(r, b) ==
    IF RBSize(r) > 0 /\ b.parentHash # RBBack(r).hash
    THEN Reconcile(RBDropBack(r), b)
    ELSE r

(* The blocks the reconciliation loop drops, in the order it drops them. *)
RECURSIVE ReconcileDrops(_, _)
ReconcileDrops(r, b) ==
    IF RBSize(r) > 0 /\ b.parentHash # RBBack(r).hash
    THEN <<RBBack(r)>> \o ReconcileDrops(RBDropBack(r), b)
    ELSE <<>>

ReconcileIncsOnce(r, b) ==
    IF RBSize(r) > 0 /\ b.parentHash # RBBack(r).hash THEN 1 ELSE 0

(* The number of reorgDroppedBlocks.Inc() calls of the reconciliation loop. *)
RECURSIVE ReconcileIncs(_, _)
ReconcileIncs(r, b) ==
    IF RBSize(r) > 0 /\ b.parentHash # RBBack(r).hash
    THEN 1 + ReconcileIncs(RBDropBack(r), b)
    ELSE 0

MustEvictEarly(r) == r.size + 1 >= Cap(r)

MustEvictNonEmpty(r) == RBSize(r) > 0

(* Whether the front must be evicted once reconciliation is over. *)
MustEvict(r) == RBIsFull(r)

InWindow(r, h) == \E k \in 1..RBSize(r) : Window(r)[k].hash = h

RFInit(d) ==
    /\ depth = d
    /\ rb = RBNew(depth)
    /\ rpc = "recv"
    /\ rblk = NilBlock
    /\ rfirst = NilBlock
    /\ received = <<>>
    /\ emitted = <<>>
    /\ dropped = <<>>
    /\ reorgDroppedBlocks = 0
    /\ linked = TRUE
    /\ outClosed = FALSE

(* One iteration of the loop up to the send: block b arrives on the input *)
(* channel, the window is reconciled, and either the front is popped for  *)
(* sending or b is pushed at once.                                        *)
RFReceive(b) ==
    /\ rpc = "recv"
    /\ received' = Append(received, b)
    /\ linked' = (linked /\ (received = <<>> \/ InWindow(rb, b.parentHash)))
    /\ dropped' = dropped \o ReconcileDrops(rb, b)
    /\ reorgDroppedBlocks' = reorgDroppedBlocks + ReconcileIncs(rb, b)
    /\ LET r1 == Reconcile(rb, b)
       IN IF MustEvict(r1)
          THEN /\ rfirst' = RBPopItem(r1)
               /\ rb' = RBPop(r1)
               /\ rblk' = b
               /\ rpc' = "send"
          ELSE /\ rb' = RBPush(r1, b)
               /\ rfirst' = NilBlock
               /\ rblk' = NilBlock
               /\ rpc' = "recv"
    /\ UNCHANGED <<depth, emitted, outClosed>>

(* SendOrDone succeeded: the downstream stage took the popped block; the  *)
(* block in hand is pushed and the loop goes back to receiving.           *)
RFSent ==
    /\ rpc = "send"
    /\ emitted' = Append(emitted, rfirst)
    /\ rb' = RBPush(rb, rblk)
    /\ rfirst' = NilBlock
    /\ rblk' = NilBlock
    /\ rpc' = "recv"
    /\ UNCHANGED <<depth, received, dropped, reorgDroppedBlocks, linked, outClosed>>

(* The loop run to the end on the blocks of input with every send taken: *)
(* the window it leaves and the blocks it sent, in order.                 *)
RECURSIVE FilterRun(_, _)
FilterRun(d, input) ==
    IF input = <<>> THEN [rb |-> RBNew(d), out |-> <<>>]
    ELSE LET prev == FilterRun(d, SubSeq(input, 1, Len(input) - 1))
             b == input[Len(input)]
             r1 == Reconcile(prev.rb, b)
         IN IF MustEvict(r1)
            THEN [rb |-> RBPush(RBPop(r1), b), out |-> Append(prev.out, RBPopItem(r1))]
            ELSE [rb |-> RBPush(r1, b), out |-> prev.out]

RFSendAbortedNoClose ==
    /\ rpc = "send"
    /\ cancelled
    /\ rpc' = "done"
    /\ UNCHANGED <<depth, rb, rblk, rfirst, received, emitted, dropped, reorgDroppedBlocks, linked,
                   outClosed>>

(* SendOrDone returned false (ctx done): return; the deferred close runs. *)
RFSendAborted ==
    /\ rpc = "send"
    /\ cancelled
    /\ rpc' = "done"
    /\ outClosed' = TRUE
    /\ UNCHANGED <<depth, rb, rblk, rfirst, received, emitted, dropped, reorgDroppedBlocks, linked>>

(* ReceiveOrDoneSeq ended (ctx done or input closed): deferred close runs. *)
RFReceiveEnded ==
    /\ rpc = "recv"
    /\ (cancelled \/ inClosed)
    /\ rpc' = "done"
    /\ outClosed' = TRUE
    /\ UNCHANGED <<depth, rb, rblk, rfirst, received, emitted, dropped, reorgDroppedBlocks, linked>>

Cancel ==
    /\ ~cancelled
    /\ cancelled' = TRUE

----------------------------------------------------------------------------
(* eth.Client.Stream *)

(* Outcomes of getFullBlock other than a block. *)
NotFound == [kind |-> "notfound"]
Failure == [kind |-> "failure"]
Got(b) == [kind |-> "block", block |-> b]

RequestForSame(cur) == cur

RequestForLatest(cur) == -1

(* The height getFullBlock is called with; -1 is sent as "latest". *)
RequestFor(cur) == cur + 1

AdvanceToNext(b) == b.number + 1

(* The value currentBlockNumber takes once b has been sent. *)
AdvanceTo(b) == b.number

SrcInit ==
    /\ spc = "tick"
    /\ currentBlockNumber = -2
    /\ sblk = NilBlock
    /\ lastRequest = -3
    /\ responses = <<>>
    /\ srcEmitted = <<>>
    /\ failedBlockRetrievals = 0
    /\ retrievedBlocks = 0
    /\ inClosed = FALSE

(* One tick up to the send: getFullBlock(currentBlockNumber+1) ends in   *)
(* resp; a block with a number other than currentBlockNumber goes to the *)
(* send, everything else ends the iteration.                             *)
SrcTick(resp) ==
    /\ spc = "tick"
    /\ lastRequest' = RequestFor(currentBlockNumber)
    /\ responses' = IF resp.kind = "block" THEN Append(responses, resp.block) ELSE responses
    /\ failedBlockRetrievals' =
          IF resp.kind = "failure" THEN failedBlockRetrievals + 1 ELSE failedBlockRetrievals
    /\ IF resp.kind = "block" /\ resp.block.number # currentBlockNumber
       THEN /\ sblk' = resp.block
            /\ spc' = "send"
       ELSE /\ sblk' = NilBlock
            /\ spc' = "tick"
    /\ UNCHANGED <<currentBlockNumber, srcEmitted, retrievedBlocks, inClosed>>

(* SendOrDone succeeded: the downstream stage took the block. *)
SrcSent ==
    /\ spc = "send"
    /\ srcEmitted' = Append(srcEmitted, sblk)
    /\ currentBlockNumber' = AdvanceTo(sblk)
    /\ retrievedBlocks' = retrievedBlocks + 1
    /\ sblk' = NilBlock
    /\ spc' = "tick"
    /\ UNCHANGED <<lastRequest, responses, failedBlockRetrievals, inClosed>>

(* SendOrDone returned false (ctx done): return; the deferred close runs. *)
SrcSendAborted ==
    /\ spc = "send"
    /\ cancelled
    /\ spc' = "done"
    /\ inClosed' = TRUE
    /\ UNCHANGED <<currentBlockNumber, sblk, lastRequest, responses, srcEmitted,
                   failedBlockRetrievals, retrievedBlocks>>

SrcTickEndedKeepsOn ==
    /\ spc = "tick"
    /\ cancelled
    /\ ~inClosed
    /\ inClosed' = TRUE
    /\ UNCHANGED <<spc, currentBlockNumber, sblk, lastRequest, responses, srcEmitted,
                   failedBlockRetrievals, retrievedBlocks>>

(* ReceiveOrDoneSeq over the ticker ended (ctx done): deferred close runs. *)
SrcTickEnded ==
    /\ spc = "tick"
    /\ cancelled
    /\ spc' = "done"
    /\ inClosed' = TRUE
    /\ UNCHANGED <<currentBlockNumber, sblk, lastRequest, responses, srcEmitted,
                   failedBlockRetrievals, retrievedBlocks>>

----------------------------------------------------------------------------
(* Client.doRequestWithRetry: backoff.RetryWithData over an exponential   *)
(* back-off. Time is counted in units of 20 ms.                           *)
InitialInterval == 5
MaxInterval == 50
MaxElapsedTime == 150
Multiplier == 2
RandomizationInverse == 5

Min(a, b) == IF a < b THEN a ELSE b

(* The intervals the randomization may turn interval i into: the ends and *)
(* the middle of [i - 0.2 i, i + 0.2 i].                                  *)
Randomized(i) == {i - (i \div RandomizationInverse), i, i + (i \div RandomizationInverse)}

(* The back-off's currentInterval after one more NextBackOff. *)
Increment(i) == Min(i * Multiplier, MaxInterval)

(* NextBackOff returns Stop. *)
BackOffStops(elapsed, next) == elapsed + next > MaxElapsedTime

IsPermanentNever(outcome) == FALSE

(* The operation wraps the error in backoff.Permanent. *)
IsPermanent(outcome) == outcome = "ctx"

RetryIdle == retry = [pc |-> "idle", attempts |-> 0, elapsed |-> 0, interval |-> InitialInterval,
                      last |-> "none"]

(* doRequestWithRetry is entered with a fresh back-off. *)
RetryBegin ==
    /\ retry.pc = "idle"
    /\ retry' = [pc |-> "attempt", attempts |-> 0, elapsed |-> 0, interval |-> InitialInterval,
                 last |-> "none"]

(* One call of the operation, taking d units of time, and what            *)
(* RetryWithData does with its outcome: "ok" (a response), "ctx"          *)
(* (context.Canceled or context.DeadlineExceeded) or "transport" (any     *)
(* other error, after which it sleeps for next units unless the back-off  *)
(* stops).                                                                *)
RetryAttempt(outcome, d, next) ==
    /\ retry.pc = "attempt"
    /\ cancelled => outcome = "ctx"
    /\ LET elapsed == retry.elapsed + d
       IN retry' =
            IF outcome = "ok"
            THEN [retry EXCEPT !.pc = "got", !.attempts = @ + 1, !.elapsed = elapsed, !.last = outcome]
            ELSE IF IsPermanent(outcome) \/ BackOffStops(elapsed, next)
            THEN [retry EXCEPT !.pc = "failed", !.attempts = @ + 1, !.elapsed = elapsed,
                               !.interval = IF IsPermanent(outcome) THEN @ ELSE Increment(@),
                               !.last = outcome]
            ELSE [retry EXCEPT !.attempts = @ + 1, !.elapsed = elapsed + next,
                               !.interval = Increment(@), !.last = outcome]

(* doRequestWithRetry returns: a response or the error. *)
RetryEnd ==
    /\ retry.pc \in {"got", "failed"}
    /\ retry' = [retry EXCEPT !.pc = "idle"]

----------------------------------------------------------------------------
(* Strings are sequences of one-character strings, so that the case and  *)
(* prefix conversions act on characters as the library functions do.     *)
UpperChars == <<"A", "B", "C", "D", "E", "F", "G", "X", "Z">>
LowerChars == <<"a", "b", "c", "d", "e", "f", "g", "x", "z">>

ToLowerChar(c) ==
    IF \E k \in 1..Len(UpperChars) : UpperChars[k] = c
    THEN LowerChars[CHOOSE k \in 1..Len(UpperChars) : UpperChars[k] = c]
    ELSE c

ToLowerKeep(str) == str

(* strings.ToLower *)
ToLower(str) == [k \in 1..Len(str) |-> ToLowerChar(str[k])]

----------------------------------------------------------------------------
(* internal/store/memdb *)
BlockNone == -1

StoreInit(subs) ==
    /\ subscribedAddresses = subs
    /\ addrToTransactions = <<>>
    /\ currentBlockNum = BlockNone

(* SubscriptionStore.IsSubscribed *)
IsSubscribed(subs, addr) == addr \in subs

(* SubscriptionStore.AddSubscription *)
AddSubscription(subs, addr) == subs \cup {addr}

(* A read of a Go map of slices: nil (empty) for a missing key. *)
MapGet(m, a) == IF a \in DOMAIN m THEN m[a] ELSE <<>>

MapAppendReplace(m, a, recs) ==
    [x \in DOMAIN m \cup {a} |-> IF x = a THEN recs ELSE m[x]]

(* m[a] = append(m[a], recs...) *)
MapAppend(m, a, recs) ==
    [x \in DOMAIN m \cup {a} |-> IF x = a THEN MapGet(m, a) \o recs ELSE m[x]]

(* TxStore.InsertBlock: the address map after the block's buckets were   *)
(* appended (the order in which the buckets are visited does not matter, *)
(* each touches its own key).                                            *)
InsertBlockMap(m, block) ==
    [x \in DOMAIN m \cup DOMAIN block.AddrToTxs |->
        MapGet(m, x) \o MapGet(block.AddrToTxs, x)]

(* TxStore.GetTransactions *)
GetTransactions(m, addr) == MapGet(m, addr)

(* No InsertBlock call in progress and nothing read yet. *)
(* TxStore.GetCurrentBlockNumber on the loaded value of currentBlockNum *)
GetCurrentBlockNumber(num) ==
    IF num = BlockNone THEN [err |-> "ErrNotFound", number |-> 0]
    ELSE [err |-> "nil", number |-> num]

(* ins.calls lists the blocks InsertBlock was called with, in call order, *)
(* ins.done the numbers of the blocks whose InsertBlock call has          *)
(* returned; obs.calls and obs.done are those lists at the time of the    *)
(* read.                                                                  *)
LockInit ==
    /\ ins = [pc |-> "idle", block |-> <<>>, pending |-> {}, done |-> <<>>, calls |-> <<>>]
    /\ obs = [op |-> "none", num |-> BlockNone, addr |-> <<>>, recs |-> <<>>, missing |-> {},
              done |-> <<>>, calls |-> <<>>]

(* No Index.index call in progress. ix.seen lists the subscription set   *)
(* each membership check of the block in progress met, ix.log the lists   *)
(* of the blocks inserted.                                                *)
IxIdle == ix = [pc |-> "idle", block |-> NilBlock, k |-> 0, addrToTxs |-> <<>>, seen |-> <<>>,
                log |-> <<>>]

UnitInit == RingInit(1) /\ LockInit /\ RetryIdle /\ IxIdle

----------------------------------------------------------------------------
(* internal/index *)
AddrLower1 == <<"a">>
AddrUpper1 == <<"A">>
AddrLower2 == <<"b">>

Tx(h, from, to) == [hash |-> h, from |-> from, to |-> to, raw |-> h]

TxRecord(tx, block) ==
    [Hash |-> tx.hash, From |-> tx.from, To |-> tx.to,
     BlockNumber |-> block.number, BlockHash |-> block.hash, Raw |-> tx.raw]

(* The addresses Index.subscribedAddresses queries, in query order. *)
QueriedAddresses(tx) == <<tx.to, tx.from>>

(* Index.subscribedAddresses, when no membership check fails. *)
SubscribedAddresses(subs, tx) ==
    (IF IsSubscribed(subs, tx.to) THEN <<ToLower(tx.to)>> ELSE <<>>)
        \o (IF IsSubscribed(subs, tx.from) THEN <<ToLower(tx.from)>> ELSE <<>>)

(* The inner loop of Index.index: one record per matched side. *)
RECURSIVE AppendRecords(_, _, _)
AppendRecords(m, addrs, rec) ==
    IF addrs = <<>> THEN m
    ELSE AppendRecords(MapAppend(m, Head(addrs), <<rec>>), Tail(addrs), rec)

(* addrToTxs after the first n transactions of the block. *)
RECURSIVE AddrToTxs(_, _, _)
AddrToTxs(subs, block, n) ==
    IF n = 0 THEN <<>>
    ELSE AppendRecords(AddrToTxs(subs, block, n - 1),
                       SubscribedAddresses(subs, block.txs[n]),
                       TxRecord(block.txs[n], block))

(* totalIndexedTxs *)
TotalIndexedTxs(subs, block) ==
    Cardinality({n \in 1..Len(block.txs) : SubscribedAddresses(subs, block.txs[n]) # <<>>})

(* The store.Block handed to InsertBlock. *)
StoreBlock(subs, block) ==
    [Number |-> block.number, Hash |-> block.hash, ParentHash |-> block.parentHash,
     AddrToTxs |-> AddrToTxs(subs, block, Len(block.txs))]

(* The membership checks of the whole block, in call order. *)
RECURSIVE AllQueries(_, _)
AllQueries(block, n) ==
    IF n = 0 THEN <<>>
    ELSE AllQueries(block, n - 1) \o QueriedAddresses(block.txs[n])

ChainInit ==
    /\ chain = <<BlockWith(1, 1, 1, 0, <<Tx(1, AddrLower1, AddrLower2)>>)>>
    /\ nextId = 2
    /\ reorgs = 0

IdxInit ==
    /\ ipc = "recv"
    /\ indexed = <<>>
    /\ outcomes = <<>>
    /\ insertCalls = <<>>
    /\ checkCalls = <<>>
    /\ blocksFailedProcessing = 0
    /\ processedBlocks = 0
    /\ indexedTransactions = 0

IndexStopOnError(failed) == IF failed THEN "done" ELSE "recv"

(* Where Index.Start goes after index returned: it logs an error and     *)
(* takes the next block.                                                 *)
AfterIndex(failed) == "recv"

(* One iteration of Index.Start: block b is received and index(b) runs.  *)
(* fail = 0: no collaborator fails; fail = k in 1..2n: the k-th          *)
(* IsSubscribed call of the block returns an error; fail = 2n+1:         *)
(* InsertBlock returns an error.                                         *)
IdxReceive(b, fail) ==
    LET n == Len(b.txs)
        queries == AllQueries(b, n)
        sb == StoreBlock(subscribedAddresses, b)
    IN /\ ipc = "recv"
       /\ fail \in 0..(2 * n + 1)
       /\ indexed' = Append(indexed, b)
       /\ outcomes' = Append(outcomes, IF fail = 0 THEN "ok"
                                       ELSE IF fail <= 2 * n THEN "check" ELSE "insert")
       /\ ipc' = AfterIndex(fail # 0)
       /\ IF fail \in 1..(2 * n)
          THEN /\ checkCalls' = checkCalls \o SubSeq(queries, 1, fail)
               /\ blocksFailedProcessing' = blocksFailedProcessing + 1
               /\ UNCHANGED <<insertCalls, processedBlocks, indexedTransactions,
                              addrToTransactions, currentBlockNum>>
          ELSE /\ checkCalls' = checkCalls \o queries
               /\ insertCalls' = Append(insertCalls, sb)
               /\ IF fail = 2 * n + 1
                  THEN /\ blocksFailedProcessing' = blocksFailedProcessing + 1
                       /\ UNCHANGED <<processedBlocks, indexedTransactions,
                                      addrToTransactions, currentBlockNum>>
                  ELSE /\ currentBlockNum' = sb.Number
                       /\ addrToTransactions' = InsertBlockMap(addrToTransactions, sb)
                       /\ processedBlocks' = processedBlocks + 1
                       /\ indexedTransactions' =
                            indexedTransactions + TotalIndexedTxs(subscribedAddresses, b)
                       /\ UNCHANGED blocksFailedProcessing
       /\ UNCHANGED subscribedAddresses

(* ReceiveOrDoneSeq ended (ctx done or input closed): Start returns. *)
IdxEnded ==
    /\ ipc = "recv"
    /\ (cancelled \/ outClosed)
    /\ ipc' = "done"
    /\ UNCHANGED <<indexed, outcomes, insertCalls, checkCalls, blocksFailedProcessing, processedBlocks,
                   indexedTransactions, storeVars>>

MatchedKeyAlways(subs, addr) == <<ToLower(addr)>>

(* One iteration of the loop of Index.subscribedAddresses: the key the   *)
(* record goes under when the address is subscribed.                     *)
MatchedKey(subs, addr) == IF IsSubscribed(subs, addr) THEN <<ToLower(addr)>> ELSE <<>>

(* Index.Start takes block b from its input and index(b) begins. *)
IxTake(b) ==
    /\ ipc = "recv"
    /\ ix.pc = "idle"
    /\ ix' = [ix EXCEPT !.pc = "check", !.block = b, !.k = 0, !.addrToTxs = <<>>, !.seen = <<>>]
    /\ indexed' = Append(indexed, b)
    /\ UNCHANGED <<ipc, outcomes, insertCalls, checkCalls, blocksFailedProcessing, processedBlocks,
                   indexedTransactions, storeVars>>

(* The next IsSubscribed call of the block, on the subscription store as *)
(* it is at that moment, and the append of the record on a match.        *)
IxCheck ==
    LET b == ix.block
        addr == AllQueries(b, Len(b.txs))[ix.k + 1]
        tx == b.txs[(ix.k \div 2) + 1]
    IN /\ ix.pc = "check"
       /\ ix.k < 2 * Len(b.txs)
       /\ ix' = [ix EXCEPT !.k = ix.k + 1,
                           !.addrToTxs = AppendRecords(ix.addrToTxs,
                                                       MatchedKey(subscribedAddresses, addr),
                                                       TxRecord(tx, b)),
                           !.seen = Append(ix.seen, subscribedAddresses)]
       /\ checkCalls' = Append(checkCalls, addr)
       /\ UNCHANGED <<ipc, indexed, outcomes, insertCalls, blocksFailedProcessing, processedBlocks,
                      indexedTransactions, storeVars>>

(* The transactions of the block in progress with a matched side. *)
IxIndexedTxs ==
    Cardinality({n \in 1..Len(ix.block.txs) :
                    \E k \in {2 * n - 1, 2 * n} :
                        AllQueries(ix.block, Len(ix.block.txs))[k] \in ix.seen[k]})

(* The loop over the transactions is over: InsertBlock, the counters,    *)
(* and index returns nil.                                                *)
IxInsert ==
    LET b == ix.block
        sb == [Number |-> b.number, Hash |-> b.hash, ParentHash |-> b.parentHash,
               AddrToTxs |-> ix.addrToTxs]
    IN /\ ix.pc = "check"
       /\ ix.k = 2 * Len(b.txs)
       /\ insertCalls' = Append(insertCalls, sb)
       /\ currentBlockNum' = sb.Number
       /\ addrToTransactions' = InsertBlockMap(addrToTransactions, sb)
       /\ processedBlocks' = processedBlocks + 1
       /\ indexedTransactions' = indexedTransactions + IxIndexedTxs
       /\ outcomes' = Append(outcomes, "ok")
       /\ ix' = [ix EXCEPT !.pc = "idle", !.log = Append(ix.log, ix.seen)]
       /\ UNCHANGED <<ipc, indexed, checkCalls, blocksFailedProcessing, subscribedAddresses>>

----------------------------------------------------------------------------
(* api/rest *)
HexLen == 40

(* The handler returns a nil error. *)
NoError == 0
StatusBadRequest == 400
StatusNotFound == 404
StatusInternalServerError == 500
StatusServiceUnavailable == 503

HexChars == {"0", "1", "2", "3", "4", "5", "6", "7", "8", "9",
             "a", "b", "c", "d", "e", "f", "A", "B", "C", "D", "E", "F"}

(* strings.TrimSpace *)
RECURSIVE TrimSpace(_)
TrimSpace(str) ==
    IF str # <<>> /\ Head(str) = " " THEN TrimSpace(Tail(str))
    ELSE IF str # <<>> /\ str[Len(str)] = " " THEN TrimSpace(SubSeq(str, 1, Len(str) - 1))
    ELSE str

(* strings.TrimPrefix *)
TrimPrefix(str, prefix) ==
    IF Len(str) >= Len(prefix) /\ SubSeq(str, 1, Len(prefix)) = prefix
    THEN SubSeq(str, Len(prefix) + 1, Len(str))
    ELSE str

HexDecodesAny(str) == TRUE

(* hex.DecodeString returns no error *)
HexDecodes(str) == Len(str) % 2 = 0 /\ \A k \in 1..Len(str) : str[k] \in HexChars

(* validateAndNormalizeAddress *)
ValidateAndNormalizeAddress(addr) ==
    LET body == TrimPrefix(ToLower(TrimSpace(addr)), <<"0", "x">>)
    IN IF Len(body) # HexLen THEN [addr |-> <<>>, valid |-> FALSE]
       ELSE IF ~HexDecodes(body) THEN [addr |-> <<>>, valid |-> FALSE]
       ELSE [addr |-> <<"0", "x">> \o body, valid |-> TRUE]

HexDigits == <<"0", "1", "2", "3", "4", "5", "6", "7", "8", "9", "a", "b", "c", "d", "e", "f">>

(* fmt.Sprintf("%x", n) for n >= 0 *)
RECURSIVE FormatHex(_)
FormatHex(n) ==
    IF n < 16 THEN <<HexDigits[n + 1]>>
    ELSE Append(FormatHex(n \div 16), HexDigits[(n % 16) + 1])

(* convertStoredToAPITransaction (the raw payload is a JSON object) *)
APITransaction(rec) ==
    [Hash |-> rec.Hash, From |-> rec.From, To |-> rec.To,
     BlockNumber |-> <<"0", "x">> \o FormatHex(rec.BlockNumber),
     BlockNumberInt |-> rec.BlockNumber, BlockHash |-> rec.BlockHash, FullTx |-> rec.Raw]

APITransactions(recs) == [k \in 1..Len(recs) |-> APITransaction(recs[k])]

(* Server.GetCurrentBlock on what TxStore.GetCurrentBlockNumber returned *)
GetCurrentBlock(got) ==
    IF got.err = "ErrNotFound"
    THEN [status |-> StatusServiceUnavailable, BlockNumberInt |-> 0, BlockNumber |-> <<>>]
    ELSE IF got.err # "nil"
    THEN [status |-> StatusInternalServerError, BlockNumberInt |-> 0, BlockNumber |-> <<>>]
    ELSE [status |-> NoError, BlockNumberInt |-> got.number,
          BlockNumber |-> <<"0", "x">> \o FormatHex(got.number)]

NoAddr == <<"-">>

Response(op, req, status, txs, checked, looked, calls) ==
    [op |-> op, req |-> req, status |-> status, txs |-> txs,
     checked |-> checked, lookedUp |-> looked, storeCalls |-> calls,
     before |-> subscribedAddresses]

(* The address Server.ListTransactions hands to TxStore.GetTransactions. *)
LookupAddress(req, addr) == req

(* Server.ListTransactions; fail names the store call that returns an     *)
(* error: "none", "subs" (IsSubscribed) or "txs" (GetTransactions).       *)
ListTransactionsResponse(req, fail) ==
    LET trimmed == TrimSpace(req)
        norm == ValidateAndNormalizeAddress(trimmed)
        looked == LookupAddress(req, norm.addr)
    IN IF trimmed = <<>>
       THEN Response("list", req, StatusBadRequest, <<>>, NoAddr, NoAddr, 0)
       ELSE IF ~norm.valid
       THEN Response("list", req, StatusBadRequest, <<>>, NoAddr, NoAddr, 0)
       ELSE IF fail = "subs"
       THEN Response("list", req, StatusInternalServerError, <<>>, norm.addr, NoAddr, 1)
       ELSE IF ~IsSubscribed(subscribedAddresses, norm.addr)
       THEN Response("list", req, StatusNotFound, <<>>, norm.addr, NoAddr, 1)
       ELSE IF fail = "txs"
       THEN Response("list", req, StatusInternalServerError, <<>>, norm.addr, looked, 2)
       ELSE Response("list", req, NoError,
                     APITransactions(GetTransactions(addrToTransactions, looked)),
                     norm.addr, looked, 2)

ListTransactions(req, fail) ==
    /\ restLast' = ListTransactionsResponse(req, fail)
    /\ UNCHANGED storeVars

SubscribeUnvalidated(req, fail) ==
    /\ restLast' = Response("subscribe", req, NoError, <<>>, TrimSpace(req), NoAddr, 1)
    /\ subscribedAddresses' = AddSubscription(subscribedAddresses, TrimSpace(req))
    /\ UNCHANGED <<addrToTransactions, currentBlockNum>>

(* Server.Subscribe; fail = "subs" makes AddSubscription return an error. *)
Subscribe(req, fail) ==
    LET trimmed == TrimSpace(req)
        norm == ValidateAndNormalizeAddress(trimmed)
    IN IF trimmed = <<>> \/ ~norm.valid
       THEN /\ restLast' = Response("subscribe", req, StatusBadRequest, <<>>, NoAddr, NoAddr, 0)
            /\ UNCHANGED storeVars
       ELSE IF fail = "subs"
       THEN /\ restLast' = Response("subscribe", req, StatusInternalServerError, <<>>,
                                    norm.addr, NoAddr, 1)
            /\ UNCHANGED storeVars
       ELSE /\ restLast' = Response("subscribe", req, NoError, <<>>, norm.addr, NoAddr, 1)
            /\ subscribedAddresses' = AddSubscription(subscribedAddresses, norm.addr)
            /\ UNCHANGED <<addrToTransactions, currentBlockNum>>

RestInit == restLast = Response("none", <<>>, NoError, <<>>, NoAddr, NoAddr, 0)

----------------------------------------------------------------------------
(* ReorgFilter on a stream of blocks of one block tree: every block has a *)
(* fresh hash; its parent is an earlier block of the stream or a block    *)
(* the filter never saw (hash 0); its number is its height in the tree.   *)
HashesSeen == {received[k].hash : k \in 1..Len(received)}

(* Position in the stream of the block with hash h, 0 if there is none. *)
IndexOf(h) ==
    IF h \in HashesSeen
    THEN (CHOOSE k \in 1..Len(received) : received[k].hash = h)
    ELSE 0

TreeBlocks ==
    LET i == Len(received) + 1
    IN {Block(i, i, (IF p = 0 THEN 0 ELSE received[IndexOf(p)].number) + 1, p) :
            p \in {0} \cup HashesSeen}

FeedTree ==
    /\ Len(received) < MaxBlocks
    /\ ~inClosed
    /\ \E b \in TreeBlocks : RFReceive(b)
    /\ UNCHANGED <<srcVars, idxVars, storeVars, cancelled, polls, chainVars, restLast, unitVars>>

Deliver ==
    /\ RFSent
    /\ UNCHANGED <<srcVars, idxVars, storeVars, cancelled, polls, chainVars, restLast, unitVars>>

CloseInput ==
    /\ ~inClosed
    /\ inClosed' = TRUE
    /\ UNCHANGED <<rfVars, srcState, idxVars, storeVars, cancelled, polls, chainVars, restLast, unitVars>>

CancelRF ==
    /\ Cancel
    /\ UNCHANGED <<rfVars, srcVars, idxVars, storeVars, polls, chainVars, restLast, unitVars>>

StopAtSend ==
    /\ RFSendAborted
    /\ UNCHANGED <<srcVars, idxVars, storeVars, cancelled, polls, chainVars, restLast, unitVars>>

StopAtReceive ==
    /\ RFReceiveEnded
    /\ UNCHANGED <<srcVars, idxVars, storeVars, cancelled, polls, chainVars, restLast, unitVars>>

InitRF ==
    /\ \E d \in 0..MaxDepth : RFInit(d)
    /\ SrcInit
    /\ IdxInit
    /\ StoreInit({})
    /\ cancelled = FALSE
    /\ polls = 0
    /\ ChainInit
    /\ RestInit
    /\ UnitInit

NextRF ==
    \/ FeedTree
    \/ Deliver
    \/ CloseInput
    \/ CancelRF
    \/ StopAtSend
    \/ StopAtReceive

SpecRF == InitRF /\ [][NextRF]_vars

----------------------------------------------------------------------------
(* ReorgFilter on an arbitrary stream: any hashes (repeated or not), any  *)
(* parent hashes.                                                         *)
AnyBlocks ==
    LET i == Len(received) + 1
    IN {Block(i, h, i, p) : h \in 1..MaxHash, p \in 0..MaxHash}

FeedAny ==
    /\ Len(received) < MaxAnyBlocks
    /\ ~inClosed
    /\ \E b \in AnyBlocks : RFReceive(b)
    /\ UNCHANGED <<srcVars, idxVars, storeVars, cancelled, polls, chainVars, restLast, unitVars>>

(* The context is never cancelled and the input never closed here. *)
NextRFAny ==
    \/ FeedAny
    \/ Deliver

SpecRFAny == InitRF /\ [][NextRFAny]_vars

----------------------------------------------------------------------------
(* Stream against a provider that may answer a request with any height,  *)
(* with "not minted" or with a failure; a consumer takes what is sent.   *)
AnyResponses ==
    {NotFound, Failure}
        \cup {Got(Block(polls + 1, polls + 1, n, 0)) : n \in 0..MaxHeight}

PollAny ==
    /\ polls < MaxPolls
    /\ \E resp \in AnyResponses : SrcTick(resp)
    /\ polls' = polls + 1
    /\ UNCHANGED <<rfVars, idxVars, storeVars, cancelled, chainVars, restLast, unitVars>>

Consume ==
    /\ SrcSent
    /\ UNCHANGED <<rfVars, idxVars, storeVars, cancelled, polls, chainVars, restLast, unitVars>>

CancelSrc ==
    /\ Cancel
    /\ UNCHANGED <<rfVars, srcVars, idxVars, storeVars, polls, chainVars, restLast, unitVars>>

SrcStopAtSend ==
    /\ SrcSendAborted
    /\ UNCHANGED <<rfVars, idxVars, storeVars, cancelled, polls, chainVars, restLast, unitVars>>

SrcStopAtTick ==
    /\ SrcTickEnded
    /\ UNCHANGED <<rfVars, idxVars, storeVars, cancelled, polls, chainVars, restLast, unitVars>>

NextSrc ==
    \/ PollAny
    \/ Consume
    \/ CancelSrc
    \/ SrcStopAtSend
    \/ SrcStopAtTick

InitSrc ==
    /\ RFInit(1)
    /\ SrcInit
    /\ IdxInit
    /\ StoreInit({})
    /\ cancelled = FALSE
    /\ polls = 0
    /\ ChainInit
    /\ RestInit
    /\ UnitInit

SpecSrc == InitSrc /\ [][NextSrc]_vars

----------------------------------------------------------------------------
(* Index.Start on a stream of blocks whose transactions carry addresses  *)
(* in lower and upper case; the subscription store holds lowercase       *)
(* addresses; the collaborators may fail as the test mocks do.           *)
FromPool == {AddrLower1, AddrUpper1, AddrLower2}
ToPool == {AddrLower1, AddrLower2}

RECURSIVE TotalTxs(_)
TotalTxs(blocks) ==
    IF blocks = <<>> THEN 0 ELSE Len(Head(blocks).txs) + TotalTxs(Tail(blocks))

TxsOfLen(n) ==
    {[k \in 1..n |-> Tx(k, f[k][1], f[k][2])] : f \in [1..n -> FromPool \X ToPool]}

IdxBlocks ==
    LET i == Len(indexed) + 1
    IN {BlockWith(i, i, i, i - 1, t) :
            t \in UNION {TxsOfLen(n) : n \in 0..(MaxTxs - TotalTxs(indexed))}}

IdxFeed ==
    /\ Len(indexed) < MaxIdxBlocks
    /\ \E b \in IdxBlocks : \E fail \in 0..(2 * Len(b.txs) + 1) : IdxReceive(b, fail)
    /\ UNCHANGED <<rfVars, srcVars, cancelled, polls, chainVars, restLast, unitVars>>

CancelIdx ==
    /\ Cancel
    /\ UNCHANGED <<rfVars, srcVars, idxVars, storeVars, polls, chainVars, restLast, unitVars>>

IdxStop ==
    /\ IdxEnded
    /\ UNCHANGED <<rfVars, srcVars, cancelled, polls, chainVars, restLast, unitVars>>

InitIdx ==
    /\ RFInit(1)
    /\ SrcInit
    /\ IdxInit
    /\ \E subs \in SUBSET {AddrLower1, AddrLower2} : StoreInit(subs)
    /\ cancelled = FALSE
    /\ polls = 0
    /\ ChainInit
    /\ RestInit
    /\ UnitInit

NextIdx ==
    \/ IdxFeed
    \/ CancelIdx
    \/ IdxStop

SpecIdx == InitIdx /\ [][NextIdx]_vars

(* Index.index taken one membership check at a time, next to Subscribe   *)
(* requests of the REST goroutines that add to the memdb subscription     *)
(* store.                                                                 *)
SubOthers == <<rfVars, srcVars, cancelled, polls, chainVars, restLast, ringVars, lockVars, retry>>

SubTxsOfLen(n) ==
    {[k \in 1..n |-> Tx(k, f[k][1], f[k][2])] :
        f \in [1..n -> {AddrLower1, AddrUpper1} \X {AddrLower1, AddrLower2}]}

SubBlocks ==
    LET i == Len(indexed) + 1
    IN {BlockWith(i, i, i, i - 1, t) :
            t \in UNION {SubTxsOfLen(n) : n \in 0..(MaxTxs - TotalTxs(indexed))}}

SubTake ==
    /\ Len(indexed) < MaxIdxBlocks
    /\ \E b \in SubBlocks : IxTake(b)
    /\ UNCHANGED SubOthers

SubCheck ==
    /\ IxCheck
    /\ UNCHANGED SubOthers

SubInsert ==
    /\ IxInsert
    /\ UNCHANGED SubOthers

(* SubscriptionStore.AddSubscription called by a Subscribe request. *)
SubAdd ==
    /\ \E a \in {AddrLower1, AddrLower2} \ subscribedAddresses :
          subscribedAddresses' = AddSubscription(subscribedAddresses, a)
    /\ UNCHANGED <<addrToTransactions, currentBlockNum, idxVars, ix, SubOthers>>

NextSub ==
    \/ SubTake
    \/ SubCheck
    \/ SubInsert
    \/ SubAdd

InitSub ==
    /\ RFInit(1)
    /\ SrcInit
    /\ IdxInit
    /\ StoreInit({})
    /\ cancelled = FALSE
    /\ polls = 0
    /\ ChainInit
    /\ RestInit
    /\ UnitInit

SpecSub == InitSub /\ [][NextSub]_vars

----------------------------------------------------------------------------
(* The pipeline of main: Stream -> ReorgFilter -> Index.Start over the    *)
(* memdb stores, against a node whose canonical chain grows and           *)
(* reorganizes at depth < confirmationDepth, and which answers every      *)
(* request with the canonical block of the requested height.              *)
ChainBlock(h, n, p) == BlockWith(h, h, n, p, <<Tx(h, AddrLower1, AddrLower2)>>)

(* The last k blocks of the chain c replaced by fresh ones. *)
RECURSIVE Regrow(_, _, _)
Regrow(c, k, id) ==
    IF k = 0 THEN c
    ELSE Regrow(Append(c, ChainBlock(id, Len(c) + 1, c[Len(c)].hash)), k - 1, id + 1)

Mint ==
    /\ Len(chain) < MaxChain
    /\ chain' = Regrow(chain, 1, nextId)
    /\ nextId' = nextId + 1
    /\ UNCHANGED <<rfVars, srcVars, idxVars, storeVars, cancelled, polls, reorgs, restLast, unitVars>>

Reorg ==
    /\ reorgs < MaxReorgs
    /\ \E k \in 1..(depth - 1) :
          /\ k < Len(chain)
          /\ chain' = Regrow(SubSeq(chain, 1, Len(chain) - k), k, nextId)
          /\ nextId' = nextId + k
    /\ reorgs' = reorgs + 1
    /\ UNCHANGED <<rfVars, srcVars, idxVars, storeVars, cancelled, polls, restLast, unitVars>>

(* The node's answer to eth_getBlockByNumber. *)
Provider(req) ==
    IF req = -1 THEN Got(chain[Len(chain)])
    ELSE IF req \in 1..Len(chain) THEN Got(chain[req])
    ELSE NotFound

Poll ==
    /\ SrcTick(Provider(RequestFor(currentBlockNumber)))
    /\ UNCHANGED <<rfVars, idxVars, storeVars, cancelled, polls, chainVars, restLast, unitVars>>

(* The unbuffered hand-off of a raw block from Stream to ReorgFilter. *)
HandOver ==
    /\ spc = "send"
    /\ RFReceive(sblk)
    /\ SrcSent
    /\ UNCHANGED <<idxVars, storeVars, cancelled, polls, chainVars, restLast, unitVars>>

(* The unbuffered hand-off of a confirmed block from ReorgFilter to       *)
(* Index.Start, which indexes it into the memdb stores.                   *)
Confirm ==
    /\ rpc = "send"
    /\ IdxReceive(rfirst, 0)
    /\ RFSent
    /\ UNCHANGED <<srcVars, cancelled, polls, chainVars, restLast, unitVars>>

Init ==
    /\ \E d \in 1..MaxDepth : RFInit(d)
    /\ SrcInit
    /\ IdxInit
    /\ StoreInit({AddrLower1})
    /\ cancelled = FALSE
    /\ polls = 0
    /\ ChainInit
    /\ RestInit
    /\ UnitInit

Next ==
    \/ Mint
    \/ Reorg
    \/ Poll
    \/ HandOver
    \/ Confirm
    \/ CancelRF
    \/ SrcStopAtSend
    \/ SrcStopAtTick
    \/ StopAtSend
    \/ StopAtReceive
    \/ IdxStop

Spec == Init /\ [][Next]_vars

(* The same pipeline on a shorter chain with at most one reorganization,  *)
(* for the properties of its scheduling: order, shutdown, termination.    *)
MintFlow ==
    /\ Len(chain) < MaxFlowChain
    /\ Mint

ReorgFlow ==
    /\ reorgs = 0
    /\ Reorg

InitFlow ==
    /\ \E d \in 1..MaxFlowDepth : RFInit(d)
    /\ SrcInit
    /\ IdxInit
    /\ StoreInit({AddrLower1})
    /\ cancelled = FALSE
    /\ polls = 0
    /\ ChainInit
    /\ RestInit
    /\ UnitInit

NextFlow ==
    \/ MintFlow
    \/ ReorgFlow
    \/ Poll
    \/ HandOver
    \/ Confirm
    \/ CancelRF
    \/ SrcStopAtSend
    \/ SrcStopAtTick
    \/ StopAtSend
    \/ StopAtReceive
    \/ IdxStop

SpecFlow == InitFlow /\ [][NextFlow]_vars

(* Fair scheduling: a goroutine whose select has the ctx.Done() case      *)
(* ready (or, for a receive, the closed input) does not go on forever     *)
(* choosing the other case.                                               *)
Fairness ==
    /\ WF_vars(SrcStopAtSend \/ SrcStopAtTick)
    /\ WF_vars(StopAtSend \/ StopAtReceive)
    /\ WF_vars(IdxStop)

SpecLive == InitFlow /\ [][NextFlow]_vars /\ Fairness

----------------------------------------------------------------------------
(* The REST handlers over the memdb stores, while the indexer inserts     *)
(* blocks whose transactions carry canonical lowercase addresses, as the  *)
(* node delivers them. Requests spell two addresses in several ways and   *)
(* include malformed ones.                                                *)
Rep(c, n) == [k \in 1..n |-> c]

Bodies ==
    {Rep("a", HexLen), Rep("A", HexLen), [k \in 1..HexLen |-> IF k % 2 = 0 THEN "a" ELSE "A"],
     Rep("1", HexLen), Rep("z", HexLen), Rep("a", HexLen - 1)}

Prefixes == {<<>>, <<"0", "x">>, <<"0", "X">>}

Requests ==
    {<<>>, <<" ">>}
        \cup {p \o b : p \in Prefixes, b \in Bodies}
        \cup {<<" ">> \o p \o Rep("a", HexLen) \o <<" ">> : p \in Prefixes}

Canon1 == <<"0", "x">> \o Rep("a", HexLen)
Canon2 == <<"0", "x">> \o Rep("1", HexLen)

RestBlocks ==
    LET i == Len(indexed) + 1
    IN {BlockWith(i, i, i, i - 1, <<Tx(1, from, to)>>) :
            from \in {Canon1, Canon2}, to \in {Canon2}}

RestSubscribe ==
    /\ \E req \in Requests : Subscribe(req, "none")
    /\ UNCHANGED <<rfVars, srcVars, idxVars, cancelled, polls, chainVars, unitVars>>

RestListTransactions ==
    /\ \E req \in Requests : ListTransactions(req, "none")
    /\ UNCHANGED <<rfVars, srcVars, idxVars, cancelled, polls, chainVars, unitVars>>

RestIndex ==
    /\ Len(indexed) < MaxRestBlocks
    /\ \E b \in RestBlocks : IdxReceive(b, 0)
    /\ UNCHANGED <<rfVars, srcVars, cancelled, polls, chainVars, restLast, unitVars>>

InitRest ==
    /\ RFInit(1)
    /\ SrcInit
    /\ IdxInit
    /\ StoreInit({})
    /\ cancelled = FALSE
    /\ polls = 0
    /\ ChainInit
    /\ RestInit
    /\ UnitInit

NextRest ==
    \/ RestSubscribe
    \/ RestListTransactions
    \/ RestIndex

SpecRest == InitRest /\ [][NextRest]_vars

(* The REST handlers over stores that can fail, as the mock stores of the *)
(* handler tests do: every store call of a request may return an error.   *)
StoreFailures == {"none", "subs", "txs"}

MockRequests ==
    {<<>>, <<" ">>, Canon1, Canon2, Rep("A", HexLen), <<" ", "0", "X">> \o Rep("a", HexLen),
     Rep("z", HexLen), Rep("a", HexLen - 1), <<"0", "x">> \o Rep("a", HexLen - 2)}

MockSubscribe ==
    /\ \E req \in MockRequests : \E fail \in StoreFailures \ {"txs"} : Subscribe(req, fail)
    /\ UNCHANGED <<rfVars, srcVars, idxVars, cancelled, polls, chainVars, unitVars>>

MockListTransactions ==
    /\ \E req \in MockRequests : \E fail \in StoreFailures : ListTransactions(req, fail)
    /\ UNCHANGED <<rfVars, srcVars, idxVars, cancelled, polls, chainVars, unitVars>>

NextRestMock ==
    \/ MockSubscribe
    \/ MockListTransactions
    \/ RestIndex

SpecRestMock == InitRest /\ [][NextRestMock]_vars

----------------------------------------------------------------------------
(* The ring buffer by itself: every sequence of Push, Pop, Back and       *)
(* DropBack on a buffer of every capacity, next to a bounded sequence on  *)
(* which the same operations are the obvious ones.                        *)
RingItem(n) == Block(n, n, n, n - 1)

RingResult(op, ok, ret, wantOk, wantRet) ==
    [op |-> op, n |-> ringLast.n + 1, ok |-> ok, ret |-> ret, prev |-> ring,
     wantOk |-> wantOk, wantRet |-> wantRet]

RingOthers ==
    <<rfVars, srcVars, idxVars, storeVars, cancelled, polls, chainVars, restLast, lockVars, retry, ix>>

RingPush ==
    /\ ringLast.n < MaxRingOps
    /\ LET item == RingItem(ringLast.n + 1)
           room == Len(ringSeq) < Max(1, ringCap)
       IN /\ ring' = RBPush(ring, item)
          /\ ringLast' = RingResult("push", RBPushOk(ring), NilBlock, room, NilBlock)
          /\ ringSeq' = IF room THEN Append(ringSeq, item) ELSE ringSeq
          /\ ringKept' = IF room THEN Append(ringKept, item) ELSE ringKept
    /\ UNCHANGED <<ringCap, ringPopped, RingOthers>>

RingPop ==
    /\ ringLast.n < MaxRingOps
    /\ ring' = RBPop(ring)
    /\ ringLast' = RingResult("pop", RBSize(ring) # 0, RBPopItem(ring),
                              ringSeq # <<>>, IF ringSeq # <<>> THEN Head(ringSeq) ELSE NilBlock)
    /\ ringSeq' = IF ringSeq # <<>> THEN Tail(ringSeq) ELSE ringSeq
    /\ ringPopped' = IF RBSize(ring) # 0 THEN Append(ringPopped, RBPopItem(ring)) ELSE ringPopped
    /\ UNCHANGED <<ringCap, ringKept, RingOthers>>

RingBack ==
    /\ ringLast.n < MaxRingOps
    /\ ringLast' = RingResult("back", RBBackOk(ring), RBBack(ring),
                              ringSeq # <<>>,
                              IF ringSeq # <<>> THEN ringSeq[Len(ringSeq)] ELSE NilBlock)
    /\ UNCHANGED <<ring, ringCap, ringSeq, ringKept, ringPopped, RingOthers>>

RingDropBack ==
    /\ ringLast.n < MaxRingOps
    /\ ring' = RBDropBack(ring)
    /\ ringLast' = RingResult("dropback", TRUE, NilBlock, TRUE, NilBlock)
    /\ ringSeq' = IF ringSeq # <<>> THEN SubSeq(ringSeq, 1, Len(ringSeq) - 1) ELSE ringSeq
    /\ ringKept' = IF ringSeq # <<>> THEN SubSeq(ringKept, 1, Len(ringKept) - 1) ELSE ringKept
    /\ UNCHANGED <<ringCap, ringPopped, RingOthers>>

InitRB ==
    /\ RFInit(1)
    /\ SrcInit
    /\ IdxInit
    /\ StoreInit({})
    /\ cancelled = FALSE
    /\ polls = 0
    /\ ChainInit
    /\ RestInit
    /\ LockInit
    /\ RetryIdle
    /\ IxIdle
    /\ \E capacity \in 0..MaxRingCap : RingInit(capacity)

NextRB ==
    \/ RingPush
    \/ RingPop
    \/ RingBack
    \/ RingDropBack

SpecRB == InitRB /\ [][NextRB]_vars

----------------------------------------------------------------------------
(* The TxStore under concurrent callers: one InsertBlock call, taken      *)
(* statement by statement under s.mu, next to GetCurrentBlockNumber and   *)
(* GetTransactions calls of other goroutines (the REST handlers).         *)
LockOthers == <<rfVars, srcVars, idxVars, cancelled, polls, chainVars, restLast, ringVars, retry, ix>>

(* The blocks the indexer may hand to InsertBlock next. *)
LockBlocks ==
    LET n == currentBlockNum + 1
    IN {StoreBlock({AddrLower1, AddrLower2}, BlockWith(n, n, n, n - 1, <<Tx(n, from, AddrLower2)>>)) :
            from \in {AddrLower1, AddrLower2}}

(* The addresses of the block being inserted, once its number is stored,  *)
(* whose records are not in the map yet.                                  *)
Missing ==
    IF ins.pc = "append" /\ ins.block.Number = currentBlockNum THEN ins.pending ELSE {}

(* s.mu.Lock() *)
InsLock ==
    /\ ins.pc = "idle"
    /\ currentBlockNum + 1 < MaxStoreBlocks
    /\ \E b \in LockBlocks :
          ins' = [pc |-> "locked", block |-> b, pending |-> DOMAIN b.AddrToTxs, done |-> ins.done,
                  calls |-> Append(ins.calls, b)]
    /\ UNCHANGED <<storeVars, obs, LockOthers>>

(* s.currentBlockNum.Store(block.Number) *)
InsStoreNumber ==
    /\ ins.pc = "locked"
    /\ currentBlockNum' = ins.block.Number
    /\ ins' = [ins EXCEPT !.pc = "append"]
    /\ UNCHANGED <<subscribedAddresses, addrToTransactions, obs, LockOthers>>

(* One iteration of the range over block.AddrToTxs. *)
InsAppend ==
    /\ ins.pc = "append"
    /\ \E a \in ins.pending :
          /\ addrToTransactions' = MapAppend(addrToTransactions, a, ins.block.AddrToTxs[a])
          /\ ins' = [ins EXCEPT !.pending = ins.pending \ {a}]
    /\ UNCHANGED <<subscribedAddresses, currentBlockNum, obs, LockOthers>>

(* The range is over: return nil, the deferred s.mu.Unlock() runs. *)
InsUnlock ==
    /\ ins.pc = "append"
    /\ ins.pending = {}
    /\ ins' = [ins EXCEPT !.pc = "idle", !.done = Append(@, ins.block.Number)]
    /\ UNCHANGED <<storeVars, obs, LockOthers>>

(* TxStore.GetCurrentBlockNumber: an atomic load, s.mu is not taken. *)
ReadCurrentBlockNumber ==
    /\ obs' = [op |-> "current", num |-> currentBlockNum, addr |-> <<>>, recs |-> <<>>,
               missing |-> Missing, done |-> ins.done, calls |-> ins.calls]
    /\ UNCHANGED <<storeVars, ins, LockOthers>>

(* TxStore.GetTransactions: under s.mu.RLock(), so not while InsertBlock  *)
(* holds the lock.                                                        *)
ReadTransactions ==
    /\ ins.pc = "idle"
    /\ \E a \in {AddrLower1, AddrLower2} :
          obs' = [op |-> "txs", num |-> currentBlockNum, addr |-> a,
                  recs |-> GetTransactions(addrToTransactions, a), missing |-> Missing,
                  done |-> ins.done, calls |-> ins.calls]
    /\ UNCHANGED <<storeVars, ins, LockOthers>>

InitLock ==
    /\ RFInit(1)
    /\ SrcInit
    /\ IdxInit
    /\ StoreInit({AddrLower1, AddrLower2})
    /\ cancelled = FALSE
    /\ polls = 0
    /\ ChainInit
    /\ RestInit
    /\ UnitInit

NextLock ==
    \/ InsLock
    \/ InsStoreNumber
    \/ InsAppend
    \/ InsUnlock
    \/ ReadCurrentBlockNumber
    \/ ReadTransactions

SpecLock == InitLock /\ [][NextLock]_vars

----------------------------------------------------------------------------
(* Stream with every request made through doRequestWithRetry: a tick      *)
(* starts the retry loop, the loop's attempts fail or succeed, and the    *)
(* tick ends with what getFullBlock makes of the loop's result.           *)
RetryOthers == <<rfVars, idxVars, storeVars, chainVars, restLast, ringVars, lockVars, ix>>

TickBegin ==
    /\ spc = "tick"
    /\ polls < MaxRetryTicks
    /\ RetryBegin
    /\ polls' = polls + 1
    /\ UNCHANGED <<srcVars, cancelled, RetryOthers>>

TickAttempt ==
    /\ \E outcome \in {"ok", "ctx", "transport"}, d \in {0, MaxAttemptTime},
          next \in Randomized(retry.interval) : RetryAttempt(outcome, d, next)
    /\ UNCHANGED <<srcVars, cancelled, polls, RetryOthers>>

(* What getFullBlock returns for a response: an unexpected status or an   *)
(* undecodable body (a failure), a null result, or the block.             *)
Decoded == {Failure, NotFound, Got(Block(polls, polls, polls, polls - 1))}

TickEnd ==
    /\ RetryEnd
    /\ IF retry.pc = "failed" THEN SrcTick(Failure) ELSE \E resp \in Decoded : SrcTick(resp)
    /\ UNCHANGED <<cancelled, polls, RetryOthers>>

RetryConsume ==
    /\ SrcSent
    /\ UNCHANGED <<cancelled, polls, retry, RetryOthers>>

RetryCancel ==
    /\ Cancel
    /\ UNCHANGED <<srcVars, polls, retry, RetryOthers>>

RetryStopAtSend ==
    /\ SrcSendAborted
    /\ UNCHANGED <<cancelled, polls, retry, RetryOthers>>

RetryStopAtTick ==
    /\ retry.pc = "idle"
    /\ SrcTickEnded
    /\ UNCHANGED <<cancelled, polls, retry, RetryOthers>>

InitRetry ==
    /\ RFInit(1)
    /\ SrcInit
    /\ IdxInit
    /\ StoreInit({})
    /\ cancelled = FALSE
    /\ polls = 0
    /\ ChainInit
    /\ RestInit
    /\ UnitInit

NextRetry ==
    \/ TickBegin
    \/ TickAttempt
    \/ TickEnd
    \/ RetryConsume
    \/ RetryCancel
    \/ RetryStopAtSend
    \/ RetryStopAtTick

SpecRetry == InitRetry /\ [][NextRetry]_vars

----------------------------------------------------------------------------
(* Properties of Stream *)

Numbers(s) == [k \in 1..Len(s) |-> s[k].number]

Distinct(s) == \A j, k \in 1..Len(s) : j # k => s[j] # s[k]

Increasing(s) == \A j, k \in 1..Len(s) : j < k => s[j] < s[k]

(* The block Stream is blocked sending, if any. *)
InFlight == IF spc = "send" THEN <<sblk>> ELSE <<>>

(* C5 as stated: pairwise distinct returned heights make the emitted     *)
(* heights strictly increasing and free of duplicates.                   *)
SingleStepStated ==
    Distinct(Numbers(responses)) =>
        (Increasing(Numbers(srcEmitted)) /\ Distinct(Numbers(srcEmitted)))

(* C5 as amended: when the returned heights are pairwise distinct every  *)
(* returned block is emitted once, in the order returned, so the emitted *)
(* heights have no duplicate; they are strictly increasing when the      *)
(* returned heights are.                                                 *)
SingleStep ==
    Distinct(Numbers(responses)) =>
        /\ IsPrefix(srcEmitted, responses)
        /\ spc # "done" => srcEmitted \o InFlight = responses
        /\ Distinct(Numbers(srcEmitted))
        /\ Increasing(Numbers(responses)) => Increasing(Numbers(srcEmitted))

(* Distinct heights, one of them below its predecessor, all emitted. *)
SingleStepWitness ==
    /\ Len(srcEmitted) >= 3
    /\ Distinct(Numbers(responses))
    /\ ~Increasing(Numbers(srcEmitted))

(* The height of the block emitted last, if any. *)
LastKnown == srcEmitted[Len(srcEmitted)].number

(* What one step of Stream must do under the tick protocol. *)
TickStep ==
    /\ polls' # polls =>
          /\ lastRequest' = (IF srcEmitted = <<>> THEN -1 ELSE LastKnown + 1)
          /\ srcEmitted' = srcEmitted
          /\ currentBlockNumber' = currentBlockNumber
          /\ spc' = "send" =>
                /\ responses' = Append(responses, sblk')
                /\ sblk'.number # currentBlockNumber
          /\ (responses' = responses
                \/ responses'[Len(responses')].number = currentBlockNumber) => spc' = "tick"
    /\ (currentBlockNumber' # currentBlockNumber \/ srcEmitted' # srcEmitted) =>
          /\ spc = "send"
          /\ srcEmitted' = Append(srcEmitted, sblk)
          /\ sblk.number # currentBlockNumber
          /\ currentBlockNumber' = sblk.number
    /\ spc' = "done" =>
          /\ srcEmitted' = srcEmitted
          /\ currentBlockNumber' = currentBlockNumber
          /\ cancelled

(* C19: Stream requests "latest" until a block has been emitted and the   *)
(* height after the last emitted one from then on; lastKnown changes only *)
(* when a block of another height has been handed downstream, to that     *)
(* height; a block not yet minted, a failure, a block of height lastKnown *)
(* and a send aborted by cancellation emit nothing and leave lastKnown.   *)
TickProtocol == [][TickStep]_vars

(* A block was emitted; after it a tick returned the same height, another *)
(* failed, and the latest request asked for the next height.              *)
TickProtocolWitness ==
    /\ Len(srcEmitted) = 1
    /\ Len(responses) = 2
    /\ responses[2].number = currentBlockNumber
    /\ failedBlockRetrievals = 1
    /\ polls = 4
    /\ spc = "tick"
    /\ lastRequest = srcEmitted[1].number + 1

(* The shortest sleep the back-off can choose at interval i. *)
Shortest(i) == i - (i \div RandomizationInverse)

(* How many sleeps fit into the budget when every sleep is the shortest   *)
(* one and the attempts themselves take no time.                          *)
RECURSIVE SleepsWithin(_, _)
SleepsWithin(budget, i) ==
    IF Shortest(i) > budget THEN 0
    ELSE 1 + SleepsWithin(budget - Shortest(i), Min(i * Multiplier, MaxInterval))

AttemptBound == 1 + SleepsWithin(MaxElapsedTime, InitialInterval)

RetryState ==
    /\ retry.attempts <= AttemptBound
    /\ (retry.pc = "attempt" /\ retry.attempts > 0) => retry.last = "transport"
    /\ retry.pc = "failed" => retry.last \in {"ctx", "transport"}
    /\ spc = "done" => cancelled

RetryStep ==
    (retry.pc # "idle" /\ retry'.pc = "idle") =>
        /\ retry.pc = "failed" =>
              /\ failedBlockRetrievals' = failedBlockRetrievals + 1
              /\ spc' = "tick"
              /\ srcEmitted' = srcEmitted
              /\ currentBlockNumber' = currentBlockNumber
        /\ (responses' # responses
              /\ responses'[Len(responses')].number # currentBlockNumber) =>
              /\ spc' = "send"
              /\ sblk' = responses'[Len(responses')]

(* C20: the retry loop makes a bounded number of attempts and a loop that *)
(* gave up is a failed tick; a context error ends the loop at once; only  *)
(* cancellation ends Stream, and a tick that gets a block of a new height *)
(* sends it whatever failed before.                                       *)
BoundedRetry == []RetryState /\ [][RetryStep]_vars

(* The first tick failed after the back-off gave up or a context error,   *)
(* and the second tick's block, obtained at the third attempt or later,   *)
(* was emitted.                                                           *)
BoundedRetryWitness ==
    /\ failedBlockRetrievals = 1
    /\ Len(srcEmitted) = 1
    /\ srcEmitted[1].id = 2
    /\ retry.attempts >= 3
    /\ retry.last = "ok"

----------------------------------------------------------------------------
(* Properties of ReorgFilter *)

(* The chain that ends in the k-th block of the stream, oldest first,    *)
(* followed through parent hashes among the blocks of the stream.        *)
RECURSIVE ChainTo(_)
ChainTo(k) ==
    IF k = 0 THEN <<>>
    ELSE Append(ChainTo(IndexOf(received[k].parentHash)), received[k])

(* The surviving chain: the chain of the newest block of the stream. *)
Surviving == ChainTo(Len(received))

(* What the filter holds: the popped front (while it is being sent), the *)
(* window, and the newcomer that waits for the send to finish.           *)
Held ==
    (IF rpc = "send" THEN <<rfirst>> ELSE <<>>)
        \o Window(rb)
        \o (IF rpc = "send" THEN <<rblk>> ELSE <<>>)

Ids(s) == {s[k].id : k \in 1..Len(s)}

Parents(s) == [k \in 1..Len(s) |-> s[k].parentHash]

(* The stream A(1), B(2, parent A), C(2, parent A), D(3, parent C),      *)
(* E(4, parent D) of the example, as parent hashes.                      *)
ExampleParents == <<0, 1, 1, 3, 4>>

(* C1: reorg absorption. When every block after the first links to a     *)
(* block still in the window (forks of depth < D), the emitted blocks    *)
(* are a prefix of the surviving chain and the rest of the surviving     *)
(* chain is what the filter still holds; emitted heights increase; no    *)
(* dropped block is emitted. On the example stream with D = 3 nothing is *)
(* emitted before E arrives, and E's arrival makes A, and only A, the    *)
(* block emitted.                                                        *)
ReorgAbsorption ==
    /\ (depth >= 1 /\ linked) =>
          /\ IsPrefix(emitted, Surviving)
          /\ rpc # "done" => emitted \o Held = Surviving
          /\ \A j, k \in 1..Len(emitted) : j < k => emitted[j].number < emitted[k].number
          /\ Ids(emitted) \cap Ids(dropped) = {}
    /\ (depth = 3 /\ IsPrefix(Parents(received), ExampleParents)) =>
          /\ Len(received) < 5 => (emitted = <<>> /\ rpc # "send")
          /\ Len(received) = 5 =>
                /\ \/ (rpc = "send" /\ rfirst = received[1] /\ emitted = <<>>)
                   \/ (rpc = "done" /\ emitted = <<>>)
                   \/ emitted = <<received[1]>>
                /\ received[2] \in {dropped[k] : k \in 1..Len(dropped)}

(* A fork was absorbed at D = 3 and a block of the surviving chain came out. *)
ReorgAbsorptionWitness ==
    /\ depth = 3
    /\ linked
    /\ Len(dropped) > 0
    /\ Len(emitted) > 0

(* Number of surviving successors of block x: the blocks after x on the  *)
(* surviving chain (0 when x is not on it).                              *)
Successors(x) ==
    IF \E k \in 1..Len(Surviving) : Surviving[k] = x
    THEN Len(Surviving) - (CHOOSE k \in 1..Len(Surviving) : Surviving[k] = x)
    ELSE 0

(* Blocks accepted and not yet handed to the send. *)
Waiting == Window(rb) \o (IF rpc = "send" THEN <<rblk>> ELSE <<>>)

(* n successors are what it takes for a block to be emitted. *)
EmittedAfter(n) ==
    /\ rpc = "send" => Successors(rfirst) = n
    /\ rpc # "done" => \A k \in 1..Len(Waiting) : Successors(Waiting[k]) < n

(* C2 as stated: a block is emitted when its (D-1)-th successor arrives. *)
ConfirmationDelayStated == depth >= 1 => EmittedAfter(depth - 1)

(* C2 as amended: a block is handed downstream exactly when its D-th     *)
(* consistent successor arrives; with fewer than D it stays in the       *)
(* window.                                                               *)
ConfirmationDelay == depth >= 1 => EmittedAfter(depth)

ConfirmationDelayWitness ==
    /\ depth = 3
    /\ rpc = "send"
    /\ Len(dropped) > 0

(* C4: every received block is in exactly one place: emitted, dropped by *)
(* reconciliation, or held; none is emitted twice and no dropped block   *)
(* is emitted.                                                           *)
BlockConservation ==
    /\ Len(emitted) = Cardinality(Ids(emitted))
    /\ Ids(emitted) \cap Ids(dropped) = {}
    /\ rpc # "done" =>
          /\ Ids(received) = Ids(emitted) \cup Ids(dropped) \cup Ids(Held)
          /\ Len(received) = Len(emitted) + Len(dropped) + Len(Held)
    /\ rpc = "recv" => Len(Held) = RBSize(rb)

BlockConservationWitness ==
    /\ Len(emitted) > 0
    /\ Len(dropped) > 0
    /\ RBSize(rb) > 0
    /\ \E j, k \in 1..Len(received) : j # k /\ received[j].hash = received[k].hash

(* Every element of the window but the oldest names the element before   *)
(* it as its parent.                                                      *)
WindowLinked(r) ==
    \A k \in 1..(RBSize(r) - 1) : Window(r)[k + 1].parentHash = Window(r)[k].hash

(* C23: adjacent elements of the window are parent-linked in every state  *)
(* of ReorgFilter, and between two blocks the back of the window links to *)
(* the element before it or is the only element.                          *)
WindowLinkage ==
    /\ WindowLinked(rb)
    /\ (rpc = "recv" /\ RBSize(rb) > 1) =>
          RBBack(rb).parentHash = Window(rb)[RBSize(rb) - 1].hash

(* A reorganisation has dropped a block and left a window of two linked   *)
(* blocks or more.                                                        *)
WindowLinkageWitness ==
    /\ rpc = "recv"
    /\ RBSize(rb) >= 2
    /\ Len(dropped) > 0
    /\ RBBack(rb) = received[Len(received)]

(* A block arrives: the step that receives it from the input channel. *)
Arrival == Len(received') = Len(received) + 1

Arrived == received'[Len(received')]

DropsOnArrival == Len(dropped') - Len(dropped)

StepOrderingStep ==
    /\ Arrival =>
          /\ emitted' = emitted
          /\ rpc' \in {"recv", "send"}
          /\ rpc' = "send" <=> (DropsOnArrival = 0 /\ RBSize(rb) = Cap(rb))
          /\ rpc' = "send" =>
                /\ rfirst' = Window(rb)[1]
                /\ rblk' = Arrived
                /\ Window(rb') = Tail(Window(rb))
          /\ rpc' = "recv" =>
                Window(rb') =
                    Append(SubSeq(Window(rb), 1, RBSize(rb) - DropsOnArrival), Arrived)
    /\ emitted' # emitted =>
          /\ rpc = "send"
          /\ rpc' = "recv"
          /\ received' = received
          /\ dropped' = dropped
          /\ emitted' = Append(emitted, rfirst)
          /\ Window(rb') = Append(Window(rb), rblk)

(* C24: the front is evicted only when the window is still full after the *)
(* reconciliation loop, so an arrival that drops a block emits nothing;   *)
(* an arrival emits at most one block, the old front; and the Push of the *)
(* arrived block, at once or after the send, always puts it at the back.  *)
StepOrdering == [][StepOrderingStep]_vars

(* With depth 2 the third block arrived at a full window, dropped its     *)
(* back and was pushed with nothing emitted.                              *)
StepOrderingWitness ==
    /\ depth = 2
    /\ Len(received) = 3
    /\ Len(dropped) = 1
    /\ emitted = <<>>
    /\ rpc = "recv"
    /\ RBSize(rb) = 2

(* The sequence s, last element first. *)
Reverse(s) == [k \in 1..Len(s) |-> s[Len(s) + 1 - k]]

UnlinkableStep ==
    Arrival =>
        /\ received = <<>> =>
              /\ rpc' = "recv"
              /\ Window(rb') = <<Arrived>>
        /\ (received # <<>> /\ ~InWindow(rb, Arrived.parentHash)) =>
              /\ rpc' = "recv"
              /\ emitted' = emitted
              /\ dropped' = dropped \o Reverse(Window(rb))
              /\ Window(rb') = <<Arrived>>
        /\ rpc' = "recv" => RBBack(rb') = Arrived

(* C25: the first block is pushed whatever its parent; a later block     *)
(* whose parent is not in the window has the whole window dropped, back   *)
(* first, with nothing emitted, and becomes the only element; a block     *)
(* that has been processed is the back of the window.                     *)
UnlinkableAccepted ==
    /\ [][UnlinkableStep]_vars
    /\ [](rpc = "recv" /\ received # <<>> => RBBack(rb) = received[Len(received)])

(* With depth 2 the third block linked to neither block of a full window: *)
(* both were dropped, none emitted, and the block is alone in the window. *)
UnlinkableAcceptedWitness ==
    /\ depth = 2
    /\ Len(received) = 3
    /\ Len(dropped) = 2
    /\ emitted = <<>>
    /\ rpc = "recv"
    /\ Window(rb) = <<received[3]>>

(* C28: a window made with capacity 0 is a window of capacity 1: it      *)
(* takes one element, is full after one Push, and refuses a second Push;  *)
(* ReorgFilter with confirmationDepth 0 sends, on every input, the blocks *)
(* it sends with confirmationDepth 1 and keeps the same window.           *)
CapacityClamp ==
    depth = 0 =>
        /\ Cap(rb) = 1
        /\ RBSize(rb) <= 1
        /\ RBSize(rb) = 0 =>
              /\ ~RBIsFull(rb)
              /\ RBPushOk(rb)
              /\ \A b \in {received[k] : k \in 1..Len(received)} :
                    /\ Window(RBPush(rb, b)) = <<b>>
                    /\ RBIsFull(RBPush(rb, b))
        /\ RBSize(rb) = 1 =>
              /\ RBIsFull(rb)
              /\ ~RBPushOk(rb)
              /\ \A b \in {received[k] : k \in 1..Len(received)} : RBPush(rb, b) = rb
        /\ LET run == FilterRun(1, received)
           IN /\ emitted \o (IF rpc = "send" THEN <<rfirst>> ELSE <<>>) = run.out
              /\ rpc = "recv" => rb = run.rb

(* With confirmationDepth 0 the filter has confirmed two blocks and       *)
(* dropped one that the next block did not link to.                       *)
CapacityClampWitness ==
    /\ depth = 0
    /\ Len(emitted) >= 2
    /\ Len(dropped) >= 1
    /\ rpc = "recv"

(* C30: between two blocks, the blocks received are as many as the       *)
(* blocks sent downstream, the reorg-dropped counter and the size of the  *)
(* window together.                                                       *)
ConservationCount ==
    rpc = "recv" => Len(received) = Len(emitted) + reorgDroppedBlocks + RBSize(rb)

(* One arrival dropped two blocks after a block had been confirmed, and   *)
(* blocks are in the window.                                              *)
ConservationCountWitness ==
    /\ rpc = "recv"
    /\ Len(emitted) = 1
    /\ reorgDroppedBlocks = 2
    /\ RBSize(rb) = 2
    /\ Len(received) = 5
    /\ received[4].hash = dropped[1].hash

----------------------------------------------------------------------------
(* Properties of the ring buffer *)

(* C13: the size stays between 0 and the capacity of the buffer (New      *)
(* makes that at least 1); Push returns false exactly at capacity and     *)
(* then changes nothing; Pop and Back on an empty buffer return not-ok    *)
(* and change nothing; DropBack on an empty buffer changes nothing.       *)
RingBounds ==
    /\ Cap(ring) = Max(1, ringCap)
    /\ 0 <= RBSize(ring)
    /\ RBSize(ring) <= Cap(ring)
    /\ ringLast.op = "push" =>
          /\ ringLast.ok = (RBSize(ringLast.prev) # Cap(ringLast.prev))
          /\ ~ringLast.ok => ring = ringLast.prev
          /\ ringLast.ok => RBSize(ring) = RBSize(ringLast.prev) + 1
    /\ (ringLast.op \in {"pop", "back"} /\ RBSize(ringLast.prev) = 0) =>
          /\ ~ringLast.ok
          /\ ringLast.ret = NilBlock
          /\ ring = ringLast.prev
    /\ (ringLast.op = "dropback" /\ RBSize(ringLast.prev) = 0) => ring = ringLast.prev
    /\ ringLast.op = "back" => ring = ringLast.prev

(* A Push was refused on a full buffer of capacity above 1 whose indices  *)
(* have wrapped around.                                                   *)
RingBoundsWitness ==
    /\ ringLast.op = "push"
    /\ ~ringLast.ok
    /\ Cap(ring) >= 2
    /\ RBIsFull(ring)
    /\ ring.head # 0

(* C14: the buffer holds what the bounded sequence holds, oldest first,   *)
(* every operation returns what the sequence returns, and the items       *)
(* popped so far followed by the content are the items pushed and not     *)
(* dropped, in push order.                                                *)
RingFifo ==
    /\ Window(ring) = ringSeq
    /\ ringLast.ok = ringLast.wantOk
    /\ ringLast.ret = ringLast.wantRet
    /\ ringPopped \o Window(ring) = ringKept

(* A Pop after the indices wrapped around. *)
RingFifoWitness ==
    /\ Len(ringPopped) >= 2
    /\ ringLast.op = "pop"
    /\ ringLast.ok
    /\ ringLast.prev.tail <= ringLast.prev.head
    /\ Cap(ring) = 2

----------------------------------------------------------------------------
(* Properties of the Indexer *)

Range(s) == {s[k] : k \in 1..Len(s)}

(* The block an InsertBlock call was made for (numbers are positions in   *)
(* the stream here).                                                      *)
BlockOf(sb) == indexed[sb.Number]

(* How many records of transaction tx the bucket holds. *)
Occurrences(bucket, tx) ==
    Cardinality({k \in 1..Len(bucket) : bucket[k].Hash = tx.hash})

(* C6: a transaction with from = to on a subscribed address is recorded   *)
(* once in that address's bucket of the mapping handed to InsertBlock.    *)
SelfTransferOnce ==
    \A c \in 1..Len(insertCalls) :
        \A k \in 1..Len(BlockOf(insertCalls[c]).txs) :
            LET tx == BlockOf(insertCalls[c]).txs[k]
            IN (tx.from = tx.to /\ tx.from \in subscribedAddresses) =>
                  Occurrences(MapGet(insertCalls[c].AddrToTxs, ToLower(tx.from)), tx) = 1

(* The subscribed addresses occurring in the block, in lowercase. *)
MatchedKeys(block) ==
    {ToLower(a) : a \in {x \in UNION {{block.txs[k].from, block.txs[k].to} :
                                          k \in 1..Len(block.txs)} :
                            x \in subscribedAddresses}}

Touches(tx, a) ==
    \/ (tx.from \in subscribedAddresses /\ ToLower(tx.from) = a)
    \/ (tx.to \in subscribedAddresses /\ ToLower(tx.to) = a)

(* The records of the block's transactions touching a, in block order. *)
RECURSIVE RecordsTouching(_, _, _)
RecordsTouching(block, a, n) ==
    IF n = 0 THEN <<>>
    ELSE RecordsTouching(block, a, n - 1)
            \o (IF Touches(block.txs[n], a) THEN <<TxRecord(block.txs[n], block)>> ELSE <<>>)

(* C7: with no collaborator failing, two membership checks per            *)
(* transaction, one InsertBlock per block carrying the block's            *)
(* number/hash/parentHash, keys exactly the lowercase subscribed          *)
(* addresses of the block, each bucket the records of the transactions    *)
(* touching the address, in block order.                                  *)
Bucketing ==
    blocksFailedProcessing = 0 =>
        /\ Len(checkCalls) = 2 * TotalTxs(indexed)
        /\ Len(insertCalls) = Len(indexed)
        /\ \A c \in 1..Len(insertCalls) :
              LET sb == insertCalls[c]
                  b == indexed[c]
              IN /\ sb.Number = b.number
                 /\ sb.Hash = b.hash
                 /\ sb.ParentHash = b.parentHash
                 /\ DOMAIN sb.AddrToTxs = MatchedKeys(b)
                 /\ \A a \in DOMAIN sb.AddrToTxs :
                       sb.AddrToTxs[a] = RecordsTouching(b, a, Len(b.txs))

(* The blocks whose membership checks all succeeded, in stream order. *)
RECURSIVE Inserted(_)
Inserted(n) ==
    IF n = 0 THEN <<>>
    ELSE Inserted(n - 1) \o (IF outcomes[n] = "check" THEN <<>> ELSE <<indexed[n]>>)

Count(s, v) == Cardinality({k \in 1..Len(s) : s[k] = v})

(* C8: a failed membership check means no InsertBlock for that block, a   *)
(* failure of either kind is reported (counted) once, and Start goes on:  *)
(* it ends only on cancellation, and the InsertBlock calls are those of   *)
(* the blocks without a membership failure, in stream order; the store    *)
(* shows the last block inserted without error.                           *)
FailureIsolation ==
    /\ ipc = "done" => cancelled
    /\ Len(insertCalls) = Len(Inserted(Len(indexed)))
    /\ \A c \in 1..Len(insertCalls) :
          /\ insertCalls[c].Number = Inserted(Len(indexed))[c].number
          /\ insertCalls[c].Hash = Inserted(Len(indexed))[c].hash
    /\ blocksFailedProcessing = Count(outcomes, "check") + Count(outcomes, "insert")
    /\ processedBlocks = Count(outcomes, "ok")
    /\ currentBlockNum =
          (IF Count(outcomes, "ok") = 0 THEN BlockNone
           ELSE indexed[CHOOSE k \in 1..Len(outcomes) :
                           outcomes[k] = "ok" /\ \A j \in (k + 1)..Len(outcomes) : outcomes[j] # "ok"].number)

(* A block failed its membership check, and the next block was indexed. *)
FailureIsolationWitness ==
    /\ Len(outcomes) >= 2
    /\ outcomes[1] = "check"
    /\ outcomes[2] = "ok"
    /\ Len(insertCalls) = 1
    /\ DOMAIN insertCalls[1].AddrToTxs # {}

(* C29: the processed-blocks counter is the number of blocks Index.Start  *)
(* has taken from its input channel, failed ones included.                *)
ProcessedCounter == processedBlocks = Len(indexed)

(* The membership checks of the c-th inserted block, in call order. *)
ChecksOf(c) == AllQueries(BlockOf(insertCalls[c]), Len(BlockOf(insertCalls[c]).txs))

(* The i-th check of the c-th inserted block found its address subscribed. *)
MatchedAt(c, i) == ChecksOf(c)[i] \in ix.log[c][i]

(* The records of the first m checks of the c-th inserted block that      *)
(* matched and go under key a, in check order.                            *)
RECURSIVE PerCheckRecords(_, _, _)
PerCheckRecords(c, a, m) ==
    IF m = 0 THEN <<>>
    ELSE PerCheckRecords(c, a, m - 1)
            \o (IF MatchedAt(c, m) /\ ToLower(ChecksOf(c)[m]) = a
                THEN <<TxRecord(BlockOf(insertCalls[c]).txs[((m - 1) \div 2) + 1],
                                BlockOf(insertCalls[c]))>>
                ELSE <<>>)

Hashes(recs) == {recs[k].Hash : k \in 1..Len(recs)}

(* The transactions of the block with a as sender or receiver. *)
TouchingHashes(block, a) ==
    {block.txs[k].hash : k \in {j \in 1..Len(block.txs) :
                                    block.txs[j].from = a \/ block.txs[j].to = a}}

CaseInsensitiveMatch ==
    \A c \in 1..Len(insertCalls) :
          \A k \in 1..Len(BlockOf(insertCalls[c]).txs) :
              LET tx == BlockOf(insertCalls[c]).txs[k]
              IN \A a \in {tx.from, tx.to} :
                    ToLower(a) \in subscribedAddresses =>
                        Occurrences(MapGet(insertCalls[c].AddrToTxs, ToLower(a)), tx) >= 1

----------------------------------------------------------------------------
(* Properties of the pipeline *)

(* C3: across reorganizations of depth < D the blocks indexed are the     *)
(* surviving chain, each once, in height order, none missing: every       *)
(* InsertBlock call is for the child of the block of the call before it.  *)
NoLossAcrossReorg ==
    \A c \in 2..Len(insertCalls) :
        /\ insertCalls[c].Number = insertCalls[c - 1].Number + 1
        /\ insertCalls[c].ParentHash = insertCalls[c - 1].Hash

(* All three tasks have returned and both channels are closed. *)
Drained ==
    /\ spc = "done"
    /\ rpc = "done"
    /\ ipc = "done"
    /\ inClosed
    /\ outClosed

(* C15: once the context is cancelled, under fair scheduling Stream's     *)
(* goroutine, ReorgFilter's goroutine and Index.Start all return and both *)
(* channels are closed, whatever each stage was doing.                    *)
CancellationDrains == cancelled ~> Drained

(* The pipeline has drained after a cancellation that found Stream and    *)
(* ReorgFilter both blocked in a send.                                    *)
CancellationDrainsWitness ==
    /\ cancelled
    /\ Drained
    /\ sblk # NilBlock
    /\ rfirst # NilBlock
    /\ emitted # <<>>

(* C16: the stages shut down in pipeline order: ReorgFilter's output is   *)
(* closed only after Stream's, and Index.Start returns only after         *)
(* ReorgFilter's output is closed.                                        *)
OrderedShutdown ==
    /\ outClosed => inClosed
    /\ ipc = "done" => outClosed

ChannelStep ==
    /\ inClosed' # inClosed =>
          /\ ~inClosed
          /\ spc # "done"
          /\ spc' = "done"
          /\ UNCHANGED <<rfVars, idxVars>>
    /\ outClosed' # outClosed =>
          /\ ~outClosed
          /\ rpc # "done"
          /\ rpc' = "done"
          /\ UNCHANGED <<srcVars, idxVars>>
    /\ inClosed => UNCHANGED srcVars
    /\ outClosed => UNCHANGED <<rb, rpc, rblk, rfirst, emitted, dropped, reorgDroppedBlocks, outClosed>>
    /\ srcEmitted' # srcEmitted => ~inClosed'
    /\ emitted' # emitted => ~outClosed'

(* C32: a channel is closed once, by the stage that sends on it, in the   *)
(* step in which that stage returns; a stage that has returned does       *)
(* nothing more, so nothing is sent on a closed channel and no channel is *)
(* closed twice; a stage that has returned has closed its channel.        *)
ChannelDiscipline ==
    /\ [][ChannelStep]_vars
    /\ [](/\ inClosed <=> spc = "done"
          /\ outClosed <=> rpc = "done"
          /\ inClosed => sblk \notin Range(received) \/ sblk = NilBlock)

(* Both producers have returned and closed their channels after blocks    *)
(* went through both, while Index.Start has not returned yet.             *)
ChannelDisciplineWitness ==
    /\ inClosed
    /\ outClosed
    /\ Len(srcEmitted) >= 2
    /\ Len(emitted) >= 1
    /\ ipc = "recv"

(* s is a subsequence of t: the elements of s occur in t in that order. *)
RECURSIVE IsSubsequence(_, _)
IsSubsequence(s, t) ==
    IF s = <<>> THEN TRUE
    ELSE IF t = <<>> THEN FALSE
    ELSE IF Head(s) = Head(t) THEN IsSubsequence(Tail(s), Tail(t))
    ELSE IsSubsequence(s, Tail(t))

IdSeq(s) == [k \in 1..Len(s) |-> s[k].id]

(* C17: what ReorgFilter emits is a subsequence of what it received, the  *)
(* blocks Index.Start takes are the emitted ones in that order, and the   *)
(* InsertBlock calls are for those blocks, one call a block, in order.    *)
OrderPreservation ==
    /\ IsSubsequence(IdSeq(emitted), IdSeq(received))
    /\ received = srcEmitted
    /\ indexed = emitted
    /\ Len(insertCalls) = Len(emitted)
    /\ \A c \in 1..Len(insertCalls) :
          /\ insertCalls[c].Hash = emitted[c].hash
          /\ insertCalls[c].Number = emitted[c].number
          /\ insertCalls[c].ParentHash = emitted[c].parentHash

(* Blocks were dropped by a reorganization between two confirmed blocks,  *)
(* both of them indexed.                                                  *)
OrderPreservationWitness ==
    /\ Len(insertCalls) >= 2
    /\ dropped # <<>>
    /\ Len(emitted) < Len(received) - 1

(* The heights of the blocks Stream has sent, in order. *)
EmittedHeights == [k \in 1..Len(srcEmitted) |-> srcEmitted[k].number]

(* Some height lies strictly between two consecutively emitted heights. *)
HeightSkipped ==
    \E k \in 1..(Len(srcEmitted) - 1) : EmittedHeights[k + 1] > EmittedHeights[k] + 1

(* A tick finds more than one block above the last emitted height (the   *)
(* chain grew faster than the ticks) and fetches a block.                *)
FetchBehind ==
    /\ spc = "tick"
    /\ spc' = "send"
    /\ currentBlockNumber >= 1
    /\ Len(chain) >= currentBlockNumber + 2

(* C26 as stated: such a tick skips heights: the block it fetches is not  *)
(* the one right above the last emitted height.                          *)
SkippedHeightsStated == [][FetchBehind => sblk'.number > currentBlockNumber + 1]_vars

(* C26 as amended: against a provider that returns the block of the       *)
(* requested height Stream emits consecutive heights, however far the     *)
(* chain is ahead: a tick fetches the height right above the last emitted *)
(* one and no height is skipped.                                          *)
NoSkippedHeights ==
    /\ ~HeightSkipped
    /\ (spc = "send" /\ currentBlockNumber >= 1) => sblk.number = currentBlockNumber + 1

(* Stream has emitted height 1 and fetched height 2 while the chain has   *)
(* reached height 5.                                                      *)
NoSkippedHeightsWitness ==
    /\ EmittedHeights = <<1>>
    /\ spc = "send"
    /\ sblk.number = 2
    /\ Len(chain) = 5

BackpressureStep ==
    /\ currentBlockNumber' # currentBlockNumber =>
          /\ spc = "send"
          /\ rpc = "recv"
          /\ received' = Append(received, sblk)
    /\ lastRequest' # lastRequest =>
          /\ spc = "tick"
          /\ sblk = NilBlock
          /\ Len(received) = Len(srcEmitted)
    /\ Arrival =>
          /\ rpc = "recv"
          /\ rfirst = NilBlock
    /\ emitted' # emitted => indexed' = Append(indexed, rfirst)

(* C27: Stream advances currentBlockNumber, and asks for the next height, *)
(* only once ReorgFilter has taken the block it fetched; ReorgFilter      *)
(* takes no block while it is sending one; so ReorgFilter holds at most   *)
(* depth + 1 blocks, and on each channel at most one block waits, every   *)
(* block sent having been received.                                       *)
Backpressure ==
    /\ [][BackpressureStep]_vars
    /\ [](/\ Len(Held) <= depth + 1
          /\ RBSize(rb) <= depth
          /\ Len(srcEmitted) = Len(received)
          /\ Len(emitted) = Len(indexed)
          /\ spc = "send" => sblk.id \notin Ids(received)
          /\ rpc = "send" => rfirst.id \notin Ids(indexed))

(* Both hand-offs are pending at depth 2: Stream waits with a fetched     *)
(* block while ReorgFilter, holding three blocks, waits for the indexer.  *)
BackpressureWitness ==
    /\ depth = 2
    /\ spc = "send"
    /\ rpc = "send"
    /\ Len(Held) = 3
    /\ Len(chain) > sblk.number

----------------------------------------------------------------------------
(* Properties of the TxStore under concurrent callers *)

(* C18: a block's number and its records become visible together: no      *)
(* read returns the number of a block some of whose records are not in    *)
(* the address map yet, and no read of an address sees part of a block.   *)
AtomicVisibility == obs.op \in {"current", "txs"} => obs.missing = {}

(* C22: a GetCurrentBlock request is answered 503 exactly when no         *)
(* InsertBlock call has returned yet, and otherwise with the number of    *)
(* the block of the last InsertBlock call that returned.                  *)
CurrentBlockHeight ==
    obs.op = "current" =>
        LET resp == GetCurrentBlock(GetCurrentBlockNumber(obs.num))
        IN /\ (resp.status = StatusServiceUnavailable) <=> (obs.done = <<>>)
           /\ obs.done # <<>> =>
                 /\ resp.status = NoError
                 /\ resp.BlockNumberInt = obs.done[Len(obs.done)]

(* The buckets for a of the blocks of calls, one after the other. *)
RECURSIVE Buckets(_, _)
Buckets(calls, a) ==
    IF calls = <<>> THEN <<>>
    ELSE Buckets(SubSeq(calls, 1, Len(calls) - 1), a)
            \o MapGet(calls[Len(calls)].AddrToTxs, a)

AppendOnlyStep ==
    \A a \in {AddrLower1, AddrLower2} :
        /\ IsPrefix(MapGet(addrToTransactions, a), MapGet(addrToTransactions', a))
        /\ (ins.pc = "idle" \/ a \notin DOMAIN ins.block.AddrToTxs) =>
              MapGet(addrToTransactions', a) = MapGet(addrToTransactions, a)

(* C33: GetTransactions(a) returns the buckets for a of the blocks        *)
(* inserted so far, in InsertBlock call order; no step of the store       *)
(* removes or reorders stored records, and an InsertBlock whose mapping   *)
(* lacks a leaves a's records as they are.                                *)
AppendOnly ==
    /\ [][AppendOnlyStep]_vars
    /\ [](/\ obs.op = "txs" => obs.recs = Buckets(obs.calls, obs.addr)
          /\ ins.pc = "idle" =>
                \A a \in {AddrLower1, AddrLower2} :
                    GetTransactions(addrToTransactions, a) = Buckets(ins.calls, a))

(* An address is read after two InsertBlock calls of which only the first *)
(* had a bucket for it, while the other address got records from both.    *)
AppendOnlyWitness ==
    /\ obs.op = "txs"
    /\ obs.addr = AddrLower1
    /\ Len(obs.calls) = 2
    /\ AddrLower1 \in DOMAIN obs.calls[1].AddrToTxs
    /\ AddrLower1 \notin DOMAIN obs.calls[2].AddrToTxs
    /\ obs.recs = obs.calls[1].AddrToTxs[AddrLower1]
    /\ Len(GetTransactions(addrToTransactions, AddrLower2)) > Len(obs.calls[1].AddrToTxs[AddrLower2])

----------------------------------------------------------------------------
(* Properties of the REST handlers *)

(* C10: ListTransactions checks the subscription and looks the            *)
(* transactions up under the same canonical form of the address, and so   *)
(* returns the records stored for the address whatever the spelling.      *)
SpellingIndependence ==
    (restLast.op = "list" /\ restLast.status = NoError) =>
        /\ restLast.lookedUp = restLast.checked
        /\ restLast.txs =
              APITransactions(GetTransactions(addrToTransactions,
                                              ValidateAndNormalizeAddress(restLast.req).addr))

(* The request r spells the canonical address c: optional blanks around, *)
(* an optional 0x or 0X prefix, and the 40 digits of c in any letter case. *)
IsSpellingOf(r, c) ==
    LET t == TrimSpace(r)
        prefixed == Len(t) = HexLen + 2
        b == IF prefixed THEN SubSeq(t, 3, Len(t)) ELSE t
    IN /\ Len(b) = HexLen
       /\ prefixed => (t[1] = "0" /\ t[2] \in {"x", "X"})
       /\ Len(c) = HexLen + 2
       /\ \A k \in 1..HexLen : ToLowerChar(b[k]) = ToLowerChar(c[k + 2])

(* C11: subscribing to an address already subscribed, in any accepted     *)
(* spelling, returns ok and leaves the subscription set unchanged, with   *)
(* one entry for the address.                                             *)
SubscribeIdempotent ==
    restLast.op = "subscribe" =>
        \A c \in restLast.before :
            IsSpellingOf(restLast.req, c) =>
                /\ restLast.status = NoError
                /\ subscribedAddresses = restLast.before
                /\ Cardinality({x \in subscribedAddresses : IsSpellingOf(restLast.req, x)}) = 1

(* An address subscribed in canonical form is subscribed again without    *)
(* prefix and in upper case.                                              *)
SubscribeIdempotentWitness ==
    /\ restLast.op = "subscribe"
    /\ restLast.req = Rep("A", HexLen)
    /\ restLast.status = NoError
    /\ Canon1 \in restLast.before
    /\ subscribedAddresses = {Canon1}

LowerHexChars == {"0", "1", "2", "3", "4", "5", "6", "7", "8", "9", "a", "b", "c", "d", "e", "f"}

IsCanonical(a) ==
    /\ Len(a) = HexLen + 2
    /\ a[1] = "0"
    /\ a[2] = "x"
    /\ \A k \in 3..Len(a) : a[k] \in LowerHexChars

(* C12: every element of the subscription store is 0x followed by 40     *)
(* lowercase hexadecimal digits, whatever requests were made.            *)
CanonicalSubscriptions == \A a \in subscribedAddresses : IsCanonical(a)

(* Both addresses are subscribed and a malformed request has just been    *)
(* refused.                                                               *)
CanonicalSubscriptionsWitness ==
    /\ subscribedAddresses = {Canon1, Canon2}
    /\ restLast.op = "subscribe"
    /\ restLast.req = Rep("z", HexLen)
    /\ restLast.status = StatusBadRequest

(* The request is an address the handlers accept: blanks around, an       *)
(* optional 0x or 0X, then exactly 40 hexadecimal digits.                 *)
WellFormedAddress(r) ==
    LET t == TrimSpace(r)
        prefixed == Len(t) >= 2 /\ t[1] = "0" /\ t[2] \in {"x", "X"}
        b == IF prefixed THEN SubSeq(t, 3, Len(t)) ELSE t
    IN /\ Len(b) = HexLen
       /\ \A k \in 1..Len(b) : b[k] \in HexChars

RefusedUntouched(r) ==
    ~WellFormedAddress(r.req) =>
        /\ r.status = StatusBadRequest
        /\ r.storeCalls = 0

(* C21 as stated: a malformed address is refused with 400 before any      *)
(* store call, and a failing store call gives 500 after exactly one store *)
(* call.                                                                  *)
RestValidationStated ==
    restLast.op \in {"subscribe", "list"} =>
        /\ RefusedUntouched(restLast)
        /\ ~WellFormedAddress(restLast.req) => subscribedAddresses = restLast.before
        /\ restLast.status = StatusInternalServerError => restLast.storeCalls = 1

RestValidationStep ==
    restLast' # restLast =>
        /\ RefusedUntouched(restLast')
        /\ ~WellFormedAddress(restLast'.req) => UNCHANGED storeVars
        /\ restLast'.status = StatusInternalServerError =>
              /\ UNCHANGED storeVars
              /\ restLast'.storeCalls =
                    IF restLast'.op = "list" /\ restLast'.lookedUp # NoAddr THEN 2 ELSE 1

(* C21: a malformed address is refused with 400 before any store call and *)
(* both stores stay as they were; a failing store call gives 500 with no  *)
(* store call repeated: one call for Subscribe and for a failing          *)
(* IsSubscribed, two (IsSubscribed, then GetTransactions) when it is      *)
(* GetTransactions that fails.                                            *)
RestValidation == [][RestValidationStep]_vars

(* A ListTransactions request one digit short has been refused while an   *)
(* address is subscribed and a block is indexed.                          *)
RestValidationWitness ==
    /\ restLast.op = "list"
    /\ restLast.req = Rep("a", HexLen - 1)
    /\ restLast.status = StatusBadRequest
    /\ restLast.storeCalls = 0
    /\ subscribedAddresses = {Canon2}
    /\ Len(indexed) = 1

====
